---- MODULE Spec2Model ----
(***************************************************************************)
(* pylogrouter: the routing engine (router.py) and its facilities          *)
(* (facilities.py) as a state machine.                                     *)
(*                                                                         *)
(* Text is a sequence of one-character strings.  "NL" stands for "\n",     *)
(* "CR" for "\r", "Q" for a double quote, "NUL" for U+0000.                *)
(* Exceptions are values: an operation returns a record whose exc field is *)
(* "none" or the name of the exception class that left it.                 *)
(***************************************************************************)
EXTENDS Integers, Sequences, FiniteSets, TLC

\* ------------------------------------------------------------------ bounds
MaxCalls == 3
MaxTime == 3
MaxFaultCalls == 2
MaxHtmlCalls == 2
MaxThreadCalls == 2
MaxMsgLen == 3
MaxOrderCalls == 4

\* ------------------------------------------------------- program constants
LEVEL_DEBUG == "DEBUG"
LEVEL_INFO == "INFO"
NATURE_INFO == "INFO"
NATURE_WARNING == "WARNING"
NATURE_ERROR == "ERROR"
HANDLE_CONSOLE == "console"
MAX_HANDLE_LENGTH == 64

LEVEL_PRIORITY(level) == IF level = LEVEL_DEBUG THEN 10 ELSE 20

Levels == {LEVEL_DEBUG, LEVEL_INFO}
Natures == {NATURE_INFO, NATURE_WARNING, NATURE_ERROR}

ALLOWED_HTML_ROW_TAGS == {"div", "pre", "span"}
ALLOWED_HTML_ROW_CLASSES ==
    {"log-row", "log-line-no", "log-time", "log-date", "log-clock",
     "badge-info", "badge-debug", "badge-warning", "badge-error",
     "syn-base", "syn-quote-mark", "syn-quote-content", "syn-number",
     "syn-punct", "syn-lhs"}
PUNCTUATION_CHARS == {".", ",", "+", "-", "=", "<", ">", ":", ";", "[", "]", "{", "}"}

\* ----------------------------------------------------------------- helpers
Min(a, b) == IF a < b THEN a ELSE b
Max(a, b) == IF a > b THEN a ELSE b
Rep(ch, n) == [i \in 1..n |-> ch]
Prefix(s, n) == SubSeq(s, 1, Min(n, Len(s)))

RECURSIVE SumSeq(_)
SumSeq(s) == IF s = << >> THEN 0 ELSE Head(s) + SumSeq(Tail(s))

RECURSIVE FlatUpTo(_, _)
FlatUpTo(ss, n) == IF n = 0 THEN << >> ELSE FlatUpTo(ss, n - 1) \o ss[n]
Flat(ss) == FlatUpTo(ss, Len(ss))

\* ------------------------------------------------------------- file system
\* One directory holds the log targets.  A path names a rotation chain: slot 0
\* is the file F itself, slot i is F.i.  A node is missing, a regular file with
\* content, a symbolic link, or something else (directory, fifo, device).
Paths == {"app.log", "web.html"}
MaxKeep == 2
Slots == 0..MaxKeep
Missing == [kind |-> "missing", content |-> << >>]
Regular(c) == [kind |-> "regular", content |-> c]
Symlink == [kind |-> "symlink", content |-> << >>]
\* a symbolic link to a regular file elsewhere; content is that file's
LinkTo(c) == [kind |-> "link", content |-> c]
IsLink(node) == node.kind \in {"symlink", "link"}

\* Path.exists(): follows links; a dangling link does not exist.
Exists(node) == node.kind \in {"regular", "other", "link"}

\* -------------------------------------------------------------------- text
WHITESPACE == {" ", "TAB", "NL", "CR"}

\* str.replace("\r\n", "\n").replace("\r", "\n")
RECURSIVE normalize_newlines(_)
normalize_newlines(text) ==
    IF text = << >> THEN << >>
    ELSE IF Head(text) = "CR"
         THEN IF Len(text) >= 2 /\ text[2] = "NL"
              THEN <<"NL">> \o normalize_newlines(Tail(Tail(text)))
              ELSE <<"NL">> \o normalize_newlines(Tail(text))
         ELSE <<Head(text)>> \o normalize_newlines(Tail(text))

\* str.split("\n"): always at least one (possibly empty) line
RECURSIVE SplitNL(_, _)
SplitNL(text, cur) ==
    IF text = << >> THEN <<cur>>
    ELSE IF Head(text) = "NL" THEN <<cur>> \o SplitNL(Tail(text), << >>)
         ELSE SplitNL(Tail(text), Append(cur, Head(text)))

split_console_lines(text) == SplitNL(normalize_newlines(text), << >>)

\* "\n".join(lines)
RECURSIVE JoinNL(_)
JoinNL(lines) ==
    IF lines = << >> THEN << >>
    ELSE IF Len(lines) = 1 THEN Head(lines)
         ELSE Head(lines) \o <<"NL">> \o JoinNL(Tail(lines))

\* length of the maximal whitespace run at the head of text
RECURSIVE WsRun(_)
WsRun(text) ==
    IF text # << >> /\ Head(text) \in WHITESPACE THEN 1 + WsRun(Tail(text)) ELSE 0

RECURSIVE Strip(_)
Strip(text) ==
    IF text = << >> THEN text
    ELSE IF Head(text) \in WHITESPACE THEN Strip(Tail(text))
    ELSE IF text[Len(text)] \in WHITESPACE THEN Strip(SubSeq(text, 1, Len(text) - 1))
    ELSE text

\* re.sub(r"\s*\n\s*", " ", text): a whitespace run holding a newline becomes
\* one space, any other run is kept
RECURSIVE CollapseNL(_)
CollapseNL(text) ==
    IF text = << >> THEN << >>
    ELSE LET n == WsRun(text) IN
         IF n = 0 THEN <<Head(text)>> \o CollapseNL(Tail(text))
         ELSE LET run == SubSeq(text, 1, n)
                  rest == SubSeq(text, n + 1, Len(text))
              IN (IF \E i \in 1..n : run[i] = "NL" THEN <<" ">> ELSE run)
                 \o CollapseNL(rest)

flatten_message(text) == Strip(CollapseNL(normalize_newlines(text)))

\* The markers the router splices into a message; only their lengths matter to
\* the later length checks, so a marker is its length in copies of one symbol.
MsgClipMarkerLen == 31
DroppedMarkerLen == 21
LineClipMarkerLen == 28
Digits(n) == IF n < 10 THEN 1 ELSE IF n < 100 THEN 2 ELSE 3
MsgClipMarker(n) == Rep("#m", MsgClipMarkerLen + Digits(n))
DroppedMarker(n) == Rep("#d", DroppedMarkerLen + Digits(n))
LineClipMarker(n) == Rep("#l", LineClipMarkerLen + Digits(n))

ClipLine(line, max_line_length) ==
    IF Len(line) > max_line_length
    THEN Prefix(line, max_line_length) \o LineClipMarker(max_line_length)
    ELSE line

\* a preparation that drops the excess lines without the marker line
prepare_message_unmarked(message, c) ==
    LET n0 == normalize_newlines(message)
        n1 == IF Len(n0) > c.max_message_length
              THEN Prefix(n0, c.max_message_length) \o MsgClipMarker(c.max_message_length)
              ELSE n0
        l0 == SplitNL(n1, << >>)
        l1 == SubSeq(l0, 1, Min(Len(l0), c.max_message_lines))
    IN JoinNL([i \in 1..Len(l1) |-> ClipLine(l1[i], c.max_line_length)])
prepare_message(message, c) ==
    LET n0 == normalize_newlines(message)
        n1 == IF Len(n0) > c.max_message_length
              THEN Prefix(n0, c.max_message_length) \o MsgClipMarker(c.max_message_length)
              ELSE n0
        l0 == SplitNL(n1, << >>)
        l1 == IF Len(l0) > c.max_message_lines
              THEN Append(SubSeq(l0, 1, c.max_message_lines),
                          DroppedMarker(Len(l0) - c.max_message_lines))
              ELSE l0
    IN JoinNL([i \in 1..Len(l1) |-> ClipLine(l1[i], c.max_line_length)])

\* ------------------------------------------------------------------- state
VARIABLES
    now,            \* time.monotonic() / datetime.now(), in whole seconds
    logger_level,   \* LoggerRouter._logger_level
    cfg,            \* the limits __init__ stores
    thr,            \* the throttle fields of the router
    facilities,     \* LoggerRouter._facilities, in insertion order
    fs,             \* the rotation chains on disk: fs[path][slot]
    dir_symlink,    \* an ancestor directory of the targets is a symbolic link
    io_error,       \* paths on which opening for writing fails with OSError
    closed,         \* the streams among stdout, stderr on which printing fails
    tampered,       \* HtmlFileFacility._syntax_class_to_html is patched
    last,           \* record of the operation that ran last (its call and result)
    calls,          \* number of log calls made so far
    env_steps,      \* number of changes the environment made so far
    win,            \* the throttle checks made in the open window
    lock_owner,     \* holder of LoggerRouter._instance_lock (0: free)
    pc,             \* per thread: where it stands in its call
    tl              \* per thread: the locals of its call

vars == <<now, logger_level, cfg, thr, facilities, fs, dir_symlink, io_error,
          closed, tampered, last, calls, env_steps, win, lock_owner, pc, tl>>

\* ------------------------------------------------------- Path Safety Guard
\* a guard that inspects what a link points to (os.stat for os.lstat)
assert_safe_log_target_following(fsx, p, slot) ==
    /\ ~dir_symlink
    /\ fsx[p][slot].kind \in {"missing", "regular", "link"}
\* a guard that trusts every path
assert_safe_log_target_trusting(fsx, p, slot) == TRUE
\* assert_safe_log_target: TRUE when it returns, FALSE when it raises
\* UnsafeLogTargetError.
assert_safe_log_target(fsx, p, slot) ==
    /\ ~dir_symlink
    /\ fsx[p][slot].kind \in {"missing", "regular"}

\* ---------------------------------------------------------------- rotation
R(fsx, exc) == [fs |-> fsx, exc |-> exc]

\* open() follows a link: the file it points to gets the content
Opened(node, c) == IF node.kind = "link" THEN LinkTo(c) ELSE Regular(c)

\* Path.write_text("") / open for writing: truncates or creates slot 0
WriteText(fsx, p, c) ==
    IF p \in io_error THEN R(fsx, "OSError")
    ELSE R([fsx EXCEPT ![p][0] = Opened(fsx[p][0], c)], "none")

\* for idx in range(keep - 1, 0, -1): F.idx -> F.(idx+1)
RECURSIVE ShiftChain(_, _, _)
ShiftChain(fsx, p, idx) ==
    IF idx < 1 THEN R(fsx, "none")
    ELSE IF ~assert_safe_log_target(fsx, p, idx) \/ ~assert_safe_log_target(fsx, p, idx + 1)
    THEN R(fsx, "UnsafeLogTargetError")
    ELSE ShiftChain(
            IF Exists(fsx[p][idx])
            THEN [fsx EXCEPT ![p][idx + 1] = fsx[p][idx], ![p][idx] = Missing]
            ELSE fsx,
            p, idx - 1)

\* a rotation that truncates in place whatever the retention
rotate_files_in_place(fsx, p, keep) ==
    IF ~assert_safe_log_target(fsx, p, 0) THEN R(fsx, "UnsafeLogTargetError")
    ELSE WriteText(fsx, p, << >>)
rotate_files(fsx, p, keep) ==
    IF ~assert_safe_log_target(fsx, p, 0) THEN R(fsx, "UnsafeLogTargetError")
    ELSE IF keep <= 0 THEN WriteText(fsx, p, << >>)
    ELSE IF ~assert_safe_log_target(fsx, p, keep) THEN R(fsx, "UnsafeLogTargetError")
    ELSE LET f1 == IF Exists(fsx[p][keep]) THEN [fsx EXCEPT ![p][keep] = Missing] ELSE fsx
             r2 == ShiftChain(f1, p, keep - 1)
         IN IF r2.exc # "none" THEN r2
            ELSE IF ~Exists(r2.fs[p][0]) THEN WriteText(r2.fs, p, << >>)
            ELSE IF ~assert_safe_log_target(r2.fs, p, 1) THEN R(r2.fs, "UnsafeLogTargetError")
            ELSE WriteText([r2.fs EXCEPT ![p][1] = r2.fs[p][0], ![p][0] = Missing], p, << >>)

\* ------------------------------------------------------------ file content
\* A file's content is the sequence of the entries written to it: the HTML
\* template, a rendered HTML row, a plain-text line.
Entry(t, no, ts, nature, text, ev) ==
    [t |-> t, no |-> no, ts |-> ts, nature |-> nature, text |-> text, ev |-> ev]
Tpl == Entry("tpl", 0, 0, "", << >>, << >>)

HtmlTemplateBytes == 40
SmallDocumentBytes == 640
SmallFileBytes == 70
NatureLen(nature) ==
    IF nature = NATURE_WARNING THEN 7 ELSE IF nature = NATURE_ERROR THEN 5 ELSE 4
\* "[YYYY-MM-DD HH:MM:SS] [NATURE] <text>\n"
LinePrefixBytes == 22
LineBytes(nature, text) == LinePrefixBytes + NatureLen(nature) + 3 + Len(text) + 1

\* the bytes of a rendered row: the fixed schema of HtmlFileFacility.write plus
\* the badge class, the badge and the rendered message
ROW_FIXED_BYTES == 261
ClassLen(c) ==
    CASE c \in {"syn-lhs"} -> 7
      [] c \in {"log-row", "syn-base"} -> 8
      [] c \in {"log-time", "log-date", "syn-punct"} -> 9
      [] c \in {"log-clock", "badge-info", "syn-number"} -> 10
      [] c \in {"log-line-no", "badge-debug", "badge-error"} -> 11
      [] c \in {"badge-warning"} -> 13
      [] c \in {"syn-quote-mark"} -> 14
      [] c \in {"syn-quote-content"} -> 17
      [] OTHER -> 10
AttrNameLen(name) == IF name = "class" THEN 5 ELSE 7
AttrBytes(a) ==
    AttrNameLen(a.name) + 4 + SumSeq([j \in 1..Len(a.value) |-> ClassLen(a.value[j])])
       + (IF Len(a.value) > 1 THEN Len(a.value) - 1 ELSE 0)
TagNameLen(tag) == IF tag = "span" THEN 4 ELSE 3
TokBytes(tok) ==
    IF tok.k = "text" THEN (IF tok.ch = "FFFD" THEN 3 ELSE 1)
    ELSE IF tok.k = "end" THEN TagNameLen(tok.tag) + 3
    ELSE TagNameLen(tok.tag) + 2 + SumSeq([i \in 1..Len(tok.attrs) |-> AttrBytes(tok.attrs[i])])
\* the bytes of escape_html_strict(_badge_icon(record)), as the icons are
\* spelled in facilities.py
BadgeBytes(badge) ==
    CASE badge = "error" -> 8
      [] badge = "debug" -> 6
      [] badge = "warning" -> 10
      [] OTHER -> 11

EntryBytes(e) ==
    IF e.t = "tpl" THEN HtmlTemplateBytes
    ELSE IF e.t = "line" THEN LineBytes(e.nature, e.text)
    ELSE ROW_FIXED_BYTES + ClassLen(e.nature) + BadgeBytes(e.text[1])
         + SumSeq([i \in 1..Len(e.ev) |-> TokBytes(e.ev[i])])

\* Path.stat().st_size
StSize(node) == SumSeq([i \in 1..Len(node.content) |-> EntryBytes(node.content[i])])

\* open(path, "a").write(entry): creates the file when it is missing
AppendEntry(fsx, p, e) ==
    IF p \in io_error THEN R(fsx, "OSError")
    ELSE R([fsx EXCEPT ![p][0] = Opened(fsx[p][0], fsx[p][0].content \o e)], "none")

\* -------------------------------------------------------------- facilities
Fac(handle, kind, path, keep, max_bytes, max_line_length, colorize_timeout_ms, color) ==
    [handle |-> handle, kind |-> kind, path |-> path, keep |-> keep,
     max_bytes |-> max_bytes, max_line_length |-> max_line_length,
     colorize_timeout_ms |-> colorize_timeout_ms, color |-> color,
     line_number |-> 0]

LogRecord(message, level, nature, timestamp) ==
    [message |-> message, level |-> level, nature |-> nature, timestamp |-> timestamp]

\* The handles the model passes around, as text.
HandleChars(h) ==
    CASE h = "console" -> <<"c", "o", "n", "s", "o", "l", "e">>
      [] h = "app" -> <<"a", "p", "p">>
      [] h = "web" -> <<"w", "e", "b">>
      [] h = "bad-handle" -> <<"b", "a", "d", "-", "h", "a", "n", "d", "l", "e">>
      [] h = "long" -> Rep("x", MAX_HANDLE_LENGTH + 1)
      [] OTHER -> << >>
HANDLE_RE_CHARS ==
    {"a", "b", "c", "d", "e", "h", "l", "n", "o", "p", "s", "w", "x", "_", "0", "1"}

\* FileFacility.validate_handle: TRUE when it returns, FALSE when it raises
validate_handle(h) ==
    LET t == HandleChars(h) IN
    /\ Len(t) <= MAX_HANDLE_LENGTH
    /\ Len(t) >= 1
    /\ \A i \in 1..Len(t) : t[i] \in HANDLE_RE_CHARS

\* Result of a create: the file system, the exception, the facility built.
RC(fsx, exc, fac) == [fs |-> fsx, exc |-> exc, fac |-> fac]
NoFac == Fac("", "none", "", 0, 0, 0, 0, FALSE)

FileFacility_create(fsx, handle, p, rotate_on_start, keep, max_file_size_bytes) ==
    IF ~validate_handle(handle) THEN RC(fsx, "ValueError", NoFac)
    ELSE IF ~assert_safe_log_target(fsx, p, 0) THEN RC(fsx, "UnsafeLogTargetError", NoFac)
    ELSE LET r1 == IF rotate_on_start THEN rotate_files(fsx, p, keep) ELSE R(fsx, "none")
         IN IF r1.exc # "none" THEN RC(r1.fs, r1.exc, NoFac)
            ELSE LET r2 == IF Exists(r1.fs[p][0]) THEN r1 ELSE WriteText(r1.fs, p, << >>)
                 IN IF r2.exc # "none" THEN RC(r2.fs, r2.exc, NoFac)
                    ELSE IF ~assert_safe_log_target(r2.fs, p, 0)
                    THEN RC(r2.fs, "UnsafeLogTargetError", NoFac)
                    ELSE IF p \in io_error THEN RC(r2.fs, "OSError", NoFac)
                    ELSE RC(r2.fs, "none",
                            Fac(handle, "file", p, keep, max_file_size_bytes, 0, 0, FALSE))

FileLine(rec) ==
    Entry("line", 0, rec.timestamp, rec.nature, flatten_message(rec.message), << >>)

\* a write that puts the line ahead of the file's content
FileFacility_write_prepending(fsx, fac, rec) ==
    LET p == fac.path
    IN IF ~assert_safe_log_target(fsx, p, 0) THEN R(fsx, "UnsafeLogTargetError")
       ELSE WriteText(fsx, p, <<FileLine(rec)>> \o fsx[p][0].content)
\* a write that never rotates
FileFacility_write_unrotated(fsx, fac, rec) ==
    LET p == fac.path
    IN IF ~assert_safe_log_target(fsx, p, 0) THEN R(fsx, "UnsafeLogTargetError")
       ELSE AppendEntry(fsx, p, <<FileLine(rec)>>)
FileFacility_write(fsx, fac, rec) ==
    LET p == fac.path
        line == FileLine(rec)
    IN IF ~assert_safe_log_target(fsx, p, 0) THEN R(fsx, "UnsafeLogTargetError")
       ELSE LET current_size == IF Exists(fsx[p][0]) THEN StSize(fsx[p][0]) ELSE 0
                r1 == IF current_size + EntryBytes(line) > fac.max_bytes
                      THEN rotate_files(fsx, p, fac.keep)
                      ELSE R(fsx, "none")
            IN IF r1.exc # "none" THEN r1
               ELSE AppendEntry(r1.fs, p, <<line>>)

\* ------------------------------------------------------- Syntax Colorizer
\* Positions are 1-based; a span <<s, e>> covers s <= i < e.  Every scan
\* returns what it found and the number of deadline checks it made: the caller
\* raises TimeoutError when the deadline expires before that many checks.
LETTERS == {"a", "b", "c", "x", "y"}
DIGITS == {"0", "1", "2"}
QUOTES == {"Q", "SQ"}
IsAlpha(ch) == ch \in LETTERS
IsDigit(ch) == ch \in DIGITS
IsAlnum(ch) == IsAlpha(ch) \/ IsDigit(ch)
IsSpace(ch) == ch \in WHITESPACE

\* the inner while of the two quote scans: <<position of the closing quote or
\* 0, checks made>>
RECURSIVE FindClose(_, _, _, _, _)
FindClose(text, quote, start, cursor, at_start_ok) ==
    IF cursor > Len(text) THEN <<0, 0>>
    ELSE IF text[cursor] = quote
            /\ ((at_start_ok /\ cursor = start) \/ text[cursor - 1] # "BS")
    THEN <<cursor, 1>>
    ELSE LET r == FindClose(text, quote, start, cursor + 1, at_start_ok)
         IN <<r[1], r[2] + 1>>

RECURSIVE QuotedScan(_, _, _, _)
QuotedScan(text, idx, spans, checks) ==
    IF idx > Len(text) THEN [spans |-> spans, checks |-> checks]
    ELSE IF text[idx] \notin QUOTES THEN QuotedScan(text, idx + 1, spans, checks + 1)
    ELSE LET r == FindClose(text, text[idx], idx + 1, idx + 1, TRUE)
         IN IF r[1] = 0 THEN QuotedScan(text, idx + 1, spans, checks + 1 + r[2])
            ELSE QuotedScan(text, r[1] + 1, Append(spans, <<idx + 1, r[1]>>),
                            checks + 1 + r[2])
quoted_content_spans(text) == QuotedScan(text, 1, << >>, 0)

RECURSIVE MarkScan(_, _, _, _)
MarkScan(text, idx, positions, checks) ==
    IF idx > Len(text) THEN [positions |-> positions, checks |-> checks]
    ELSE IF text[idx] \notin QUOTES THEN MarkScan(text, idx + 1, positions, checks + 1)
    ELSE LET r == FindClose(text, text[idx], idx, idx + 1, FALSE)
         IN IF r[1] = 0 THEN MarkScan(text, idx + 1, positions, checks + 1 + r[2])
            ELSE MarkScan(text, r[1] + 1, positions \cup {idx, r[1]}, checks + 1 + r[2])
quote_mark_positions(text) == MarkScan(text, 1, {}, 0)

\* end of the identifier run starting at idx (first position past it)
RECURSIVE IdentEnd(_, _)
IdentEnd(text, idx) ==
    IF idx <= Len(text) /\ (IsAlnum(text[idx]) \/ text[idx] = "_")
    THEN IdentEnd(text, idx + 1) ELSE idx
RECURSIVE SkipSpace(_, _)
SkipSpace(text, idx) ==
    IF idx <= Len(text) /\ IsSpace(text[idx]) THEN SkipSpace(text, idx + 1) ELSE idx

RECURSIVE LhsScan(_, _, _, _)
LhsScan(text, idx, spans, checks) ==
    IF idx > Len(text) THEN [spans |-> spans, checks |-> checks]
    ELSE IF ~(IsAlpha(text[idx]) \/ text[idx] = "_")
    THEN LhsScan(text, idx + 1, spans, checks + 1)
    ELSE LET end == IdentEnd(text, idx + 1)
             lookahead == SkipSpace(text, end)
         IN LhsScan(text, end,
                    IF lookahead <= Len(text) /\ text[lookahead] = "="
                    THEN Append(spans, <<idx, end>>) ELSE spans,
                    checks + 1 + (end - (idx + 1)))
lhs_equals_spans(text) == LhsScan(text, 1, << >>, 0)

index_in_spans(index, spans) ==
    \E i \in 1..Len(spans) : spans[i][1] <= index /\ index < spans[i][2]

token_class(index, ch, quote_spans, quote_marks, lhs_spans) ==
    IF index \in quote_marks THEN "quote-mark"
    ELSE IF index_in_spans(index, quote_spans) THEN "quote-content"
    ELSE IF index_in_spans(index, lhs_spans) THEN "lhs"
    ELSE IF IsDigit(ch) THEN "number"
    ELSE IF ch \in PUNCTUATION_CHARS THEN "punct"
    ELSE "base"

\* ---------------------------------------------------------- normalization
C0_C1_CONTROLS == {"NUL", "ESC", "DEL", "C1", "CR"}
BIDI_CONTROLS == {"RLO", "LRM", "ALM"}

\* a normalization that passes the bidi controls on
normalize_for_html_controls_only(text) ==
    LET n == normalize_newlines(text) IN
    [i \in 1..Len(n) |-> IF n[i] \in C0_C1_CONTROLS \ {"CR"} THEN "FFFD" ELSE n[i]]

normalize_for_html(text) ==
    LET n == normalize_newlines(text) IN
    [i \in 1..Len(n) |->
        IF n[i] \in {"NL", "TAB"} THEN n[i]
        ELSE IF n[i] \in C0_C1_CONTROLS \/ n[i] \in BIDI_CONTROLS THEN "FFFD"
        ELSE n[i]]

normalize_for_terminal(text) ==
    LET n == normalize_newlines(text) IN
    [i \in 1..Len(n) |->
        IF n[i] \in {"NL", "TAB"} THEN n[i]
        ELSE IF n[i] \in C0_C1_CONTROLS THEN "FFFD"
        ELSE n[i]]

\* html.escape(ch, quote=True)
HtmlEscapeChar(ch) ==
    CASE ch = "&" -> <<"&", "a", "m", "p", ";">>
      [] ch = "<" -> <<"&", "l", "t", ";">>
      [] ch = ">" -> <<"&", "g", "t", ";">>
      [] ch = "Q" -> <<"&", "q", "u", "o", "t", ";">>
      [] ch = "SQ" -> <<"&", "#", "x", "2", "7", ";">>
      [] OTHER -> <<ch>>
\* an escape that normalizes but leaves the markup characters as they are
escape_html_raw(text) == normalize_for_html(text)
escape_html_strict(text) ==
    LET n == normalize_for_html(text) IN Flat([i \in 1..Len(n) |-> HtmlEscapeChar(n[i])])

\* ------------------------------------------------ HTML Fragment Validator
\* A rendered row as html.parser.HTMLParser reports it: start tags, end tags,
\* self-closing tags, comments, and characters of text.
Tok(k, tag, attrs, ch) == [k |-> k, tag |-> tag, attrs |-> attrs, ch |-> ch]
Attr(name, value, has_value) == [name |-> name, value |-> value, has_value |-> has_value]
Start(tag, classes) ==
    Tok("start", tag, IF classes = << >> THEN << >> ELSE <<Attr("class", classes, TRUE)>>, "")
End(tag) == Tok("end", tag, << >>, "")
Text(chars) == [i \in 1..Len(chars) |-> Tok("text", "", << >>, chars[i])]

\* StrictHtmlFragmentValidator._validate_attributes: TRUE when it returns
validate_attributes(attrs) ==
    \A i \in 1..Len(attrs) :
        /\ attrs[i].name \notin {"onclick", "onerror"}
        /\ attrs[i].name = "class"
        /\ attrs[i].has_value
        /\ attrs[i].value # << >>
        /\ \A j \in 1..Len(attrs[i].value) : attrs[i].value[j] \in ALLOWED_HTML_ROW_CLASSES

\* feed(): the parser's callbacks in order; v is the validator's state and
\* v.ok turns FALSE at the callback that raises HtmlSanitizationError
RECURSIVE Feed(_, _)
Feed(v, toks) ==
    IF toks = << >> \/ ~v.ok THEN v
    ELSE LET t == Head(toks) IN
         Feed(CASE t.k = "start" ->
                     IF t.tag \notin ALLOWED_HTML_ROW_TAGS THEN [v EXCEPT !.ok = FALSE]
                     ELSE IF ~v.saw_root /\ t.tag # "div" THEN [v EXCEPT !.ok = FALSE]
                     ELSE IF ~validate_attributes(t.attrs)
                     THEN [v EXCEPT !.ok = FALSE, !.saw_root = TRUE]
                     ELSE [v EXCEPT !.saw_root = TRUE, !.stack = Append(v.stack, t.tag)]
                [] t.k = "end" ->
                     IF t.tag \notin ALLOWED_HTML_ROW_TAGS THEN [v EXCEPT !.ok = FALSE]
                     ELSE IF v.stack = << >> THEN [v EXCEPT !.ok = FALSE]
                     ELSE IF v.stack[Len(v.stack)] # t.tag
                     THEN [v EXCEPT !.ok = FALSE, !.stack = SubSeq(v.stack, 1, Len(v.stack) - 1)]
                     ELSE [v EXCEPT !.stack = SubSeq(v.stack, 1, Len(v.stack) - 1)]
                [] t.k \in {"startend", "comment"} -> [v EXCEPT !.ok = FALSE]
                [] OTHER -> v,
              Tail(toks))

\* a validation that does not look at what is left open
validate_rendered_row_unclosed(row) ==
    LET v == Feed([stack |-> << >>, saw_root |-> FALSE, ok |-> TRUE], row)
    IN v.ok /\ v.saw_root
\* validate_rendered_row_or_raise: TRUE when it returns
validate_rendered_row_or_raise(row) ==
    LET v == Feed([stack |-> << >>, saw_root |-> FALSE, ok |-> TRUE], row)
    IN v.ok /\ v.saw_root /\ v.stack = << >>

\* ------------------------------------------------- Rotating HTML Document
NEVER == 0 - 1      \* a deadline that does not expire
HtmlLineClipMarkerLen == 18

\* HtmlFileFacility._badge_icon: which icon
badge_icon(rec) ==
    IF rec.nature = NATURE_ERROR THEN "error"
    ELSE IF rec.level = LEVEL_DEBUG \/ rec.nature = NATURE_WARNING
    THEN (IF rec.nature = NATURE_WARNING THEN "warning" ELSE "debug")
    ELSE "info"

badge_css_class(rec) ==
    IF rec.nature = NATURE_ERROR THEN "badge-error"
    ELSE IF rec.level = LEVEL_DEBUG THEN "badge-debug"
    ELSE IF rec.nature = NATURE_WARNING THEN "badge-warning"
    ELSE "badge-info"

\* HtmlFileFacility._syntax_class_to_html, and the attributes the span
\* '<span class="{css_class}">' then carries.  The patched renderer of the
\* test suite returns 'syn-base" onclick="alert(1)' ("attr"); "class" returns
\* a class outside the allow-list.
SynClass(token) ==
    CASE token = "quote-mark" -> "syn-quote-mark"
      [] token = "quote-content" -> "syn-quote-content"
      [] token = "lhs" -> "syn-lhs"
      [] token = "number" -> "syn-number"
      [] token = "punct" -> "syn-punct"
      [] OTHER -> "syn-base"
syntax_class_to_html(token) ==
    IF tampered = "attr"
    THEN <<Attr("class", <<"syn-base">>, TRUE), Attr("onclick", <<"alert(1)">>, TRUE)>>
    ELSE IF tampered = "class" THEN <<Attr("class", <<"evil-class">>, TRUE)>>
    ELSE <<Attr("class", <<SynClass(token)>>, TRUE)>>

\* One line of _render_html_message; budget is the number of deadline checks
\* that pass before the deadline expires (NEVER: it does not expire).
RenderHtmlLine(line, budget) ==
    LET q == quoted_content_spans(line)
        m == quote_mark_positions(line)
        l == lhs_equals_spans(line)
        scans == q.checks + m.checks + l.checks
        span(i) == <<Tok("start", "span",
                         syntax_class_to_html(
                             token_class(i, line[i], q.spans, m.positions, l.spans)), "")>>
                   \o Text(escape_html_strict(<<line[i]>>)) \o <<End("span")>>
    IN IF budget = NEVER \/ budget >= scans + Len(line)
       THEN Flat([i \in 1..Len(line) |-> span(i)])
       ELSE IF budget < scans THEN Text(escape_html_strict(line))
       ELSE Flat([i \in 1..(budget - scans) |-> span(i)]) \o Text(escape_html_strict(line))

render_html_message(message, max_line_length, budget) ==
    LET lines == split_console_lines(normalize_for_html(message))
        clip(raw) == IF Len(raw) <= max_line_length THEN raw
                     ELSE Prefix(raw, max_line_length) \o Rep("#h", HtmlLineClipMarkerLen)
    IN Flat([i \in 1..Len(lines) |->
                (IF i > 1 THEN Text(<<"NL", "TAB">>) ELSE << >>)
                \o RenderHtmlLine(clip(lines[i]), budget)])

\* the row of HtmlFileFacility.write around a rendered message
RowTokens(badge_class, rendered_message) ==
    <<Start("div", <<"log-row">>),
      Start("div", <<"log-line-no">>), Start("pre", << >>), End("pre"), End("div"),
      Start("div", <<"log-time">>), Start("pre", << >>),
      Start("span", <<"log-date">>), End("span"),
      Start("span", <<"log-clock">>), End("span"),
      End("pre"), End("div"),
      Start("div", <<badge_class>>), Start("pre", << >>), End("pre"), End("div"),
      Start("div", << >>), Start("pre", << >>)>>
    \o rendered_message
    \o <<End("pre"), End("div"), End("div")>>

\* HtmlFileFacility._ensure_document
ensure_document(fsx, p) ==
    IF Exists(fsx[p][0]) /\ StSize(fsx[p][0]) > 0 THEN R(fsx, "none")
    ELSE IF ~assert_safe_log_target(fsx, p, 0) THEN R(fsx, "UnsafeLogTargetError")
    ELSE WriteText(fsx, p, <<Tpl>>)

\* content.count('<div class="log-row">')
detect_existing_line_count(node) ==
    IF ~Exists(node) THEN 0
    ELSE Cardinality({i \in 1..Len(node.content) : node.content[i].t = "row"})

\* a create that leaves the truncated document empty
HtmlFileFacility_create_bare(fsx, handle, p, rotate_on_start, keep, c) ==
    FileFacility_create(fsx, handle, p, rotate_on_start, keep, c.max_html_document_bytes)
HtmlFileFacility_create(fsx, handle, p, rotate_on_start, keep, c) ==
    IF ~validate_handle(handle) THEN RC(fsx, "ValueError", NoFac)
    ELSE IF ~assert_safe_log_target(fsx, p, 0) THEN RC(fsx, "UnsafeLogTargetError", NoFac)
    ELSE LET r1 == IF rotate_on_start THEN rotate_files(fsx, p, keep) ELSE R(fsx, "none")
         IN IF r1.exc # "none" THEN RC(r1.fs, r1.exc, NoFac)
            ELSE LET r2 == ensure_document(r1.fs, p)
                 IN IF r2.exc # "none" THEN RC(r2.fs, r2.exc, NoFac)
                    ELSE RC(r2.fs, "none",
                            [Fac(handle, "html", p, keep, c.max_html_document_bytes,
                                 c.max_line_length, c.colorize_timeout_ms, FALSE)
                             EXCEPT !.line_number = detect_existing_line_count(r2.fs[p][0])])

\* a write that appends the row before it validates it
HtmlFileFacility_write_append_first(fsx, fac, rec, budget) ==
    LET p == fac.path
        r0 == ensure_document(fsx, p)
    IN IF r0.exc # "none" THEN RC(r0.fs, r0.exc, fac)
       ELSE IF ~assert_safe_log_target(r0.fs, p, 0) THEN RC(r0.fs, "UnsafeLogTargetError", fac)
       ELSE LET badge_class == badge_css_class(rec)
                rendered_message == render_html_message(rec.message, fac.max_line_length, budget)
                fac1 == [fac EXCEPT !.line_number = fac.line_number + 1]
                row == Entry("row", fac1.line_number, rec.timestamp, badge_class,
                             <<badge_icon(rec)>>, rendered_message)
                r1 == AppendEntry(r0.fs, p, <<row>>)
            IN IF ~validate_rendered_row_or_raise(RowTokens(badge_class, rendered_message))
               THEN RC(r1.fs, "HtmlSanitizationError", fac1)
               ELSE RC(r1.fs, r1.exc, fac1)
\* a write that appends the row without validating it
HtmlFileFacility_write_unvalidated(fsx, fac, rec, budget) ==
    LET p == fac.path
        r0 == ensure_document(fsx, p)
    IN IF r0.exc # "none" THEN RC(r0.fs, r0.exc, fac)
       ELSE IF ~assert_safe_log_target(r0.fs, p, 0) THEN RC(r0.fs, "UnsafeLogTargetError", fac)
       ELSE LET badge_class == badge_css_class(rec)
                rendered_message == render_html_message(rec.message, fac.max_line_length, budget)
                fac1 == [fac EXCEPT !.line_number = fac.line_number + 1]
                row == Entry("row", fac1.line_number, rec.timestamp, badge_class,
                             <<badge_icon(rec)>>, rendered_message)
                r1 == AppendEntry(r0.fs, p, <<row>>)
            IN RC(r1.fs, r1.exc, fac1)

\* a write that appends the row a second time
HtmlFileFacility_write_doubled(fsx, fac, rec, budget) ==
    LET r == HtmlFileFacility_write_unvalidated(fsx, fac, rec, budget)
    IN IF r.exc # "none" THEN r
       ELSE HtmlFileFacility_write_unvalidated(r.fs, r.fac, rec, budget)
\* a write that does not look at the size of the document
HtmlFileFacility_write_uncapped(fsx, fac, rec, budget) ==
    LET p == fac.path
        r0 == ensure_document(fsx, p)
    IN IF r0.exc # "none" THEN RC(r0.fs, r0.exc, fac)
       ELSE IF ~assert_safe_log_target(r0.fs, p, 0) THEN RC(r0.fs, "UnsafeLogTargetError", fac)
       ELSE LET badge_class == badge_css_class(rec)
                rendered_message == render_html_message(rec.message, fac.max_line_length, budget)
                fac1 == [fac EXCEPT !.line_number = fac.line_number + 1]
                row == Entry("row", fac1.line_number, rec.timestamp, badge_class,
                             <<badge_icon(rec)>>, rendered_message)
            IN IF ~validate_rendered_row_or_raise(RowTokens(badge_class, rendered_message))
               THEN RC(r0.fs, "HtmlSanitizationError", fac1)
               ELSE LET r1 == AppendEntry(r0.fs, p, <<row>>) IN RC(r1.fs, r1.exc, fac1)
HtmlFileFacility_write(fsx, fac, rec, budget) ==
    LET p == fac.path
        r0 == ensure_document(fsx, p)
    IN IF r0.exc # "none" THEN RC(r0.fs, r0.exc, fac)
       ELSE IF ~assert_safe_log_target(r0.fs, p, 0) THEN RC(r0.fs, "UnsafeLogTargetError", fac)
       ELSE LET badge_class == badge_css_class(rec)
                rendered_message == render_html_message(rec.message, fac.max_line_length, budget)
                fac1 == [fac EXCEPT !.line_number = fac.line_number + 1]
                row == Entry("row", fac1.line_number, rec.timestamp, badge_class,
                             <<badge_icon(rec)>>, rendered_message)
                current_size == IF Exists(r0.fs[p][0]) THEN StSize(r0.fs[p][0]) ELSE 0
            IN IF ~validate_rendered_row_or_raise(RowTokens(badge_class, rendered_message))
               THEN RC(r0.fs, "HtmlSanitizationError", fac1)
               ELSE IF current_size + EntryBytes(row) > fac.max_bytes
               THEN RC(r0.fs, "HtmlSanitizationError", fac1)
               ELSE LET r1 == AppendEntry(r0.fs, p, <<row>>) IN RC(r1.fs, r1.exc, fac1)

\* ------------------------------------------------------------------ Router
DEFAULT_MAX_MESSAGE_LENGTH == 32768
DEFAULT_MAX_MESSAGE_LINES == 500
DEFAULT_MAX_LINE_LENGTH == 4096
DEFAULT_MAX_LOG_HANDLES_PER_CALL == 64
DEFAULT_COLORIZE_TIMEOUT_MS == 15
DEFAULT_MAX_HTML_DOCUMENT_BYTES == 10485760
DEFAULT_MAX_HTML_TITLE_LENGTH == 256
DEFAULT_MAX_WRITES_PER_SECOND == 200
DEFAULT_THROTTLE_WINDOW_SECONDS == 1
DEFAULT_PLAIN_LOG_MAX_FILE_SIZE_BYTES == 209715200

\* the keyword arguments of LoggerRouter(...), at their defaults
DefaultArgs ==
    [logger_level |-> LEVEL_INFO,
     logger_color |-> TRUE,
     max_message_length |-> DEFAULT_MAX_MESSAGE_LENGTH,
     max_message_lines |-> DEFAULT_MAX_MESSAGE_LINES,
     max_line_length |-> DEFAULT_MAX_LINE_LENGTH,
     max_log_handles_per_call |-> DEFAULT_MAX_LOG_HANDLES_PER_CALL,
     colorize_timeout_ms |-> DEFAULT_COLORIZE_TIMEOUT_MS,
     max_html_document_bytes |-> DEFAULT_MAX_HTML_DOCUMENT_BYTES,
     max_html_title_length |-> DEFAULT_MAX_HTML_TITLE_LENGTH,
     max_writes_per_second |-> DEFAULT_MAX_WRITES_PER_SECOND,
     throttle_window_seconds |-> DEFAULT_THROTTLE_WINDOW_SECONDS,
     plain_log_max_file_size_bytes |-> DEFAULT_PLAIN_LOG_MAX_FILE_SIZE_BYTES]

\* the limits in the order __init__ validates and stores them
CfgFields ==
    <<"max_message_length", "max_message_lines", "max_line_length",
      "max_log_handles_per_call", "colorize_timeout_ms", "max_html_document_bytes",
      "max_html_title_length", "max_writes_per_second", "throttle_window_seconds",
      "plain_log_max_file_size_bytes">>
CfgOf(a) == [f \in {CfgFields[i] : i \in 1..Len(CfgFields)} |-> a[f]]

\* str(x).strip().upper() on the spellings the model passes
StripUpper(x) ==
    CASE x = "info" -> "INFO"
      [] x = "debug" -> "DEBUG"
      [] OTHER -> x
\* _validate_level / _validate_nature: the normalized value, or "" when it raises
validate_level(level) ==
    IF StripUpper(level) \in Levels THEN StripUpper(level) ELSE ""
validate_nature(nature) ==
    IF StripUpper(nature) \in Natures THEN StripUpper(nature) ELSE ""

\* one entry of the record of a call: a throttle decision for a handle
\* ("admit", "drop"), a facility write of the call's record ("record"), or a
\* diagnostic written to the console ("throttle", "security", "failure",
\* "init"), or a facility's create ("create"); exc is the exception raised
Ev(h, what, exc) == [h |-> h, what |-> what, exc |-> exc]

Registered(facs, h) == \E i \in 1..Len(facs) : facs[i].handle = h
FacIndex(facs, h) == CHOOSE i \in 1..Len(facs) : facs[i].handle = h
Keys(facs) == [i \in 1..Len(facs) |-> facs[i].handle]
\* a map that adds an entry at every registration
PutFacility_appending(facs, fac) == Append(facs, fac)
\* self._facilities[handle] = facility
PutFacility(facs, fac) ==
    IF Registered(facs, fac.handle)
    THEN [facs EXCEPT ![FacIndex(facs, fac.handle)] = fac]
    ELSE Append(facs, fac)

\* ConsoleFacility.write: the exception printing raises, if any
ConsoleFacility_write(rec) ==
    LET file_stream == IF rec.nature = NATURE_ERROR THEN "stderr" ELSE "stdout"
    IN IF file_stream \in closed THEN "OSError" ELSE "none"

\* The router's mutable state while a call runs: m.exc is the exception that
\* is leaving the call, m.tr the record of what the call did.
\* a diagnostic that takes its turn at the throttle like a console record
console_diagnostic_throttled(m, what) ==
    IF ~(Registered(m.facs, HANDLE_CONSOLE)
         /\ m.facs[FacIndex(m.facs, HANDLE_CONSOLE)].kind = "console")
    THEN m
    ELSE IF m.thr.writes_in_current_window >= cfg.max_writes_per_second
    THEN [m EXCEPT !.thr.dropped_in_current_window = @ + 1,
                   !.thr.throttle_dropped_total = @ + 1]
    ELSE LET e == ConsoleFacility_write(LogRecord(<<what>>, LEVEL_INFO, NATURE_ERROR, now))
         IN [m EXCEPT !.tr = Append(@, Ev(HANDLE_CONSOLE, what, e)), !.exc = e,
                      !.thr.writes_in_current_window = @ + 1]
console_diagnostic(m, what) ==
    IF ~(Registered(m.facs, HANDLE_CONSOLE)
         /\ m.facs[FacIndex(m.facs, HANDLE_CONSOLE)].kind = "console")
    THEN m
    ELSE LET e == ConsoleFacility_write(LogRecord(<<what>>, LEVEL_INFO, NATURE_ERROR, now))
         IN [m EXCEPT !.tr = Append(@, Ev(HANDLE_CONSOLE, what, e)), !.exc = e]

Get(d, h) == IF h \in DOMAIN d THEN d[h] ELSE 0
Bump(d, h) == [x \in DOMAIN d \cup {h} |-> IF x = h THEN Get(d, h) + 1 ELSE d[x]]

\* a throttle that admits one write more than the cap
should_drop_off_by_one(m, handle, c) ==
    LET t1 == IF m.thr.window_started_at <= 0
              THEN [m.thr EXCEPT !.window_started_at = now] ELSE m.thr
        expired == now - t1.window_started_at >= c.throttle_window_seconds
        m1 == [m EXCEPT !.thr = t1]
        m2 == IF expired /\ t1.dropped_in_current_window > 0
              THEN console_diagnostic(m1, "throttle") ELSE m1
        t3 == IF expired
              THEN [t1 EXCEPT !.window_started_at = now,
                              !.writes_in_current_window = 0,
                              !.dropped_in_current_window = 0]
              ELSE t1
    IN IF m2.exc # "none" THEN m2
       ELSE IF t3.writes_in_current_window > c.max_writes_per_second
       THEN [m2 EXCEPT !.drop = TRUE,
                       !.tr = Append(@, Ev(handle, "drop", "none")),
                       !.thr = [t3 EXCEPT
                                  !.dropped_in_current_window = @ + 1,
                                  !.throttle_dropped_total = @ + 1,
                                  !.throttle_dropped_by_handle = Bump(@, handle)]]
       ELSE [m2 EXCEPT !.drop = FALSE,
                       !.tr = Append(@, Ev(handle, "admit", "none")),
                       !.thr = [t3 EXCEPT !.writes_in_current_window = @ + 1]]

\* a throttle that closes its windows without reporting their drops
should_drop_unreported(m, handle, c) ==
    LET t1 == IF m.thr.window_started_at <= 0
              THEN [m.thr EXCEPT !.window_started_at = now] ELSE m.thr
        expired == now - t1.window_started_at >= c.throttle_window_seconds
        t3 == IF expired
              THEN [t1 EXCEPT !.window_started_at = now,
                              !.writes_in_current_window = 0,
                              !.dropped_in_current_window = 0]
              ELSE t1
    IN IF t3.writes_in_current_window >= c.max_writes_per_second
       THEN [m EXCEPT !.drop = TRUE,
                      !.tr = Append(@, Ev(handle, "drop", "none")),
                      !.thr = [t3 EXCEPT
                                 !.dropped_in_current_window = @ + 1,
                                 !.throttle_dropped_total = @ + 1,
                                 !.throttle_dropped_by_handle = Bump(@, handle)]]
       ELSE [m EXCEPT !.drop = FALSE,
                      !.tr = Append(@, Ev(handle, "admit", "none")),
                      !.thr = [t3 EXCEPT !.writes_in_current_window = @ + 1]]
\* a throttle that admits every write to a handle none was dropped for
should_drop_per_handle(m, handle, c) ==
    LET t1 == IF m.thr.window_started_at <= 0
              THEN [m.thr EXCEPT !.window_started_at = now] ELSE m.thr
        expired == now - t1.window_started_at >= c.throttle_window_seconds
        m1 == [m EXCEPT !.thr = t1]
        m2 == IF expired /\ t1.dropped_in_current_window > 0
              THEN console_diagnostic(m1, "throttle") ELSE m1
        t3 == IF expired
              THEN [t1 EXCEPT !.window_started_at = now,
                              !.writes_in_current_window = 0,
                              !.dropped_in_current_window = 0]
              ELSE t1
    IN IF m2.exc # "none" THEN m2
       ELSE IF t3.writes_in_current_window >= c.max_writes_per_second
               /\ Get(t3.throttle_dropped_by_handle, handle) > 0
       THEN [m2 EXCEPT !.drop = TRUE,
                       !.tr = Append(@, Ev(handle, "drop", "none")),
                       !.thr = [t3 EXCEPT
                                  !.dropped_in_current_window = @ + 1,
                                  !.throttle_dropped_total = @ + 1,
                                  !.throttle_dropped_by_handle = Bump(@, handle)]]
       ELSE [m2 EXCEPT !.drop = FALSE,
                       !.tr = Append(@, Ev(handle, "admit", "none")),
                       !.thr = [t3 EXCEPT !.writes_in_current_window = @ + 1]]
\* a throttle whose window outlives its length by a moment
should_drop_late_reset(m, handle, c) ==
    LET t1 == IF m.thr.window_started_at <= 0
              THEN [m.thr EXCEPT !.window_started_at = now] ELSE m.thr
        expired == now - t1.window_started_at > c.throttle_window_seconds
        m1 == [m EXCEPT !.thr = t1]
        m2 == IF expired /\ t1.dropped_in_current_window > 0
              THEN console_diagnostic(m1, "throttle") ELSE m1
        t3 == IF expired
              THEN [t1 EXCEPT !.window_started_at = now,
                              !.writes_in_current_window = 0,
                              !.dropped_in_current_window = 0]
              ELSE t1
    IN IF m2.exc # "none" THEN m2
       ELSE IF t3.writes_in_current_window >= c.max_writes_per_second
       THEN [m2 EXCEPT !.drop = TRUE,
                       !.tr = Append(@, Ev(handle, "drop", "none")),
                       !.thr = [t3 EXCEPT
                                  !.dropped_in_current_window = @ + 1,
                                  !.throttle_dropped_total = @ + 1,
                                  !.throttle_dropped_by_handle = Bump(@, handle)]]
       ELSE [m2 EXCEPT !.drop = FALSE,
                       !.tr = Append(@, Ev(handle, "admit", "none")),
                       !.thr = [t3 EXCEPT !.writes_in_current_window = @ + 1]]
\* a throttle that counts a drop in the total but not for its handle
should_drop_forgetting_handle(m, handle, c) ==
    LET t1 == IF m.thr.window_started_at <= 0
              THEN [m.thr EXCEPT !.window_started_at = now] ELSE m.thr
        expired == now - t1.window_started_at >= c.throttle_window_seconds
        m1 == [m EXCEPT !.thr = t1]
        m2 == IF expired /\ t1.dropped_in_current_window > 0
              THEN console_diagnostic(m1, "throttle") ELSE m1
        t3 == IF expired
              THEN [t1 EXCEPT !.window_started_at = now,
                              !.writes_in_current_window = 0,
                              !.dropped_in_current_window = 0]
              ELSE t1
    IN IF m2.exc # "none" THEN m2
       ELSE IF t3.writes_in_current_window >= c.max_writes_per_second
       THEN [m2 EXCEPT !.drop = TRUE,
                       !.tr = Append(@, Ev(handle, "drop", "none")),
                       !.thr = [t3 EXCEPT
                                  !.dropped_in_current_window = @ + 1,
                                  !.throttle_dropped_total = @ + 1]]
       ELSE [m2 EXCEPT !.drop = FALSE,
                       !.tr = Append(@, Ev(handle, "admit", "none")),
                       !.thr = [t3 EXCEPT !.writes_in_current_window = @ + 1]]
should_drop_write_due_to_throttle(m, handle, c) ==
    LET t1 == IF m.thr.window_started_at <= 0
              THEN [m.thr EXCEPT !.window_started_at = now] ELSE m.thr
        expired == now - t1.window_started_at >= c.throttle_window_seconds
        m1 == [m EXCEPT !.thr = t1]
        m2 == IF expired /\ t1.dropped_in_current_window > 0
              THEN console_diagnostic(m1, "throttle") ELSE m1
        t3 == IF expired
              THEN [t1 EXCEPT !.window_started_at = now,
                              !.writes_in_current_window = 0,
                              !.dropped_in_current_window = 0]
              ELSE t1
    IN IF m2.exc # "none" THEN m2
       ELSE IF t3.writes_in_current_window >= c.max_writes_per_second
       THEN [m2 EXCEPT !.drop = TRUE,
                       !.tr = Append(@, Ev(handle, "drop", "none")),
                       !.thr = [t3 EXCEPT
                                  !.dropped_in_current_window = @ + 1,
                                  !.throttle_dropped_total = @ + 1,
                                  !.throttle_dropped_by_handle = Bump(@, handle)]]
       ELSE [m2 EXCEPT !.drop = FALSE,
                       !.tr = Append(@, Ev(handle, "admit", "none")),
                       !.thr = [t3 EXCEPT !.writes_in_current_window = @ + 1]]

\* facility.write(record), by the facility's class
FacilityWrite(m, handle, rec, budget) ==
    LET i == FacIndex(m.facs, handle)
        fac == m.facs[i]
    IN CASE fac.kind = "console" ->
               [m EXCEPT !.wexc = ConsoleFacility_write(rec),
                         !.tr = Append(@, Ev(handle, "record", ConsoleFacility_write(rec)))]
         [] fac.kind = "file" ->
               LET r == FileFacility_write(m.fs, fac, rec)
               IN [m EXCEPT !.fs = r.fs, !.wexc = r.exc,
                            !.tr = Append(@, Ev(handle, "record", r.exc))]
         [] OTHER ->
               LET r == HtmlFileFacility_write(m.fs, fac, rec, budget)
               IN [m EXCEPT !.fs = r.fs, !.wexc = r.exc, !.facs[i] = r.fac,
                            !.tr = Append(@, Ev(handle, "record", r.exc))]

\* an except clause that lets UnsafeLogTargetError leave log
HandleWriteError_reraising(m) ==
    IF m.wexc = "none" THEN m
    ELSE IF m.wexc = "UnsafeLogTargetError" THEN [m EXCEPT !.exc = m.wexc]
    ELSE IF m.wexc = "HtmlSanitizationError" THEN console_diagnostic(m, "security")
    ELSE console_diagnostic(m, "failure")

\* the except clauses of log
HandleWriteError(m) ==
    IF m.wexc = "none" THEN m
    ELSE IF m.wexc \in {"HtmlSanitizationError", "UnsafeLogTargetError"}
    THEN console_diagnostic(m, "security")
    ELSE console_diagnostic(m, "failure")

\* for handle in selected_handles: ...
RECURSIVE LogLoop(_, _, _, _, _)
LogLoop(m, hs, rec, c, budget) ==
    IF hs = << >> \/ m.exc # "none" THEN m
    ELSE LET m1 == should_drop_write_due_to_throttle(m, Head(hs), c)
         IN IF m1.exc # "none" THEN m1
            ELSE IF m1.drop THEN LogLoop(m1, Tail(hs), rec, c, budget)
            ELSE LogLoop(HandleWriteError(FacilityWrite(m1, Head(hs), rec, budget)),
                         Tail(hs), rec, c, budget)

\* handles: [none |-> TRUE] for None, else [none |-> FALSE, list |-> <<...>>]
None == [none |-> TRUE, list |-> << >>]
List(l) == [none |-> FALSE, list |-> l]

\* a resolver that ignores the caller's list
resolve_handles_broadcast(facs, handles, c) ==
    [exc |-> "none", selected |-> Keys(facs)]
\* a resolver without the check of the number of handles
resolve_handles_uncapped(facs, handles, c) ==
    IF handles.none THEN [exc |-> "none", selected |-> Keys(facs)]
    ELSE IF \E i \in 1..Len(handles.list) : ~Registered(facs, handles.list[i])
    THEN [exc |-> "ValueError", selected |-> << >>]
    ELSE [exc |-> "none", selected |-> handles.list]

\* a resolver that lists the registered handles newest first
resolve_handles_reversed(facs, handles, c) ==
    IF handles.none
    THEN [exc |-> "none", selected |-> [i \in 1..Len(facs) |-> facs[Len(facs) + 1 - i].handle]]
    ELSE IF Len(handles.list) > c.max_log_handles_per_call
    THEN [exc |-> "ValueError", selected |-> << >>]
    ELSE IF \E i \in 1..Len(handles.list) : ~Registered(facs, handles.list[i])
    THEN [exc |-> "ValueError", selected |-> << >>]
    ELSE [exc |-> "none", selected |-> handles.list]
\* _resolve_handles: the selected handles, or exc = "ValueError"
resolve_handles(facs, handles, c) ==
    IF handles.none THEN [exc |-> "none", selected |-> Keys(facs)]
    ELSE IF Len(handles.list) > c.max_log_handles_per_call
    THEN [exc |-> "ValueError", selected |-> << >>]
    ELSE IF \E i \in 1..Len(handles.list) : ~Registered(facs, handles.list[i])
    THEN [exc |-> "ValueError", selected |-> << >>]
    ELSE [exc |-> "none", selected |-> handles.list]

M0 == [thr |-> thr, fs |-> fs, facs |-> facilities, tr |-> << >>, exc |-> "none",
       drop |-> FALSE, wexc |-> "none", gated |-> FALSE, selected |-> << >>]

\* LoggerRouter.log
\* a gate that lets every level through
LevelGate_open(level) == FALSE
LevelGate(level) == LEVEL_PRIORITY(level) < LEVEL_PRIORITY(logger_level)
\* a log that resolves the handles before it looks at the level
log_resolving_first(message, level, nature, handles, budget) ==
    LET lv == validate_level(level)
        nt == validate_nature(nature)
        sel == resolve_handles(facilities, handles, cfg)
    IN IF lv = "" \/ nt = "" THEN [M0 EXCEPT !.exc = "ValueError"]
       ELSE IF sel.exc # "none" THEN [M0 EXCEPT !.exc = sel.exc]
       ELSE IF LevelGate(lv) THEN [M0 EXCEPT !.gated = TRUE]
       ELSE LogLoop([M0 EXCEPT !.selected = sel.selected], sel.selected,
                    LogRecord(prepare_message(message, cfg), lv, nt, now), cfg, budget)
log(message, level, nature, handles, budget) ==
    LET lv == validate_level(level)
        nt == validate_nature(nature)
    IN IF lv = "" \/ nt = "" THEN [M0 EXCEPT !.exc = "ValueError"]
       ELSE IF LevelGate(lv) THEN [M0 EXCEPT !.gated = TRUE]
       ELSE LET sel == resolve_handles(facilities, handles, cfg)
            IN IF sel.exc # "none" THEN [M0 EXCEPT !.exc = sel.exc]
               ELSE LogLoop([M0 EXCEPT !.selected = sel.selected], sel.selected,
                            LogRecord(prepare_message(message, cfg), lv, nt, now),
                            cfg, budget)

\* ----------------------------------------------------------- registration
\* _validate_facility_params: TRUE when it returns
validate_facility_params(log_handle, rotations_to_keep) ==
    log_handle # HANDLE_CONSOLE /\ rotations_to_keep >= 0

\* the tail shared by add_log_file and add_html_log_file: r is the result of
\* the facility's create
Register(r) ==
    LET m0 == [M0 EXCEPT !.fs = r.fs, !.tr = <<Ev(r.fac.handle, "create", r.exc)>>]
    IN IF r.exc \in {"ValueError", "UnsafeLogTargetError"} THEN [m0 EXCEPT !.exc = r.exc]
       ELSE IF r.exc # "none" THEN console_diagnostic(m0, "init")
       ELSE [m0 EXCEPT !.facs = PutFacility(facilities, r.fac)]

add_log_file(log_handle, p, rotate_on_start, rotations_to_keep) ==
    IF ~validate_facility_params(log_handle, rotations_to_keep)
    THEN [M0 EXCEPT !.exc = "ValueError"]
    ELSE Register(FileFacility_create(fs, log_handle, p, rotate_on_start,
                                      rotations_to_keep, cfg.plain_log_max_file_size_bytes))

\* _validate_html_theme / _validate_refresh_seconds / the title check
ValidHtmlArgs(title_length, html_theme, refresh_seconds) ==
    /\ html_theme \in {"dark", "light"}
    /\ refresh_seconds > 0
    /\ title_length <= cfg.max_html_title_length

add_html_log_file(log_handle, p, title_length, html_theme, refresh_seconds, rotate_on_start, rotations_to_keep) ==
    IF ~validate_facility_params(log_handle, rotations_to_keep)
       \/ ~ValidHtmlArgs(title_length, html_theme, refresh_seconds)
    THEN [M0 EXCEPT !.exc = "ValueError"]
    ELSE Register(HtmlFileFacility_create(fs, log_handle, p, rotate_on_start,
                                          rotations_to_keep, cfg))

\* ---------------------------------------------------------- construction
\* __init__ validates and stores one limit after the other
RECURSIVE ApplyCfg(_, _, _)
ApplyCfg(c, a, i) ==
    IF i > Len(CfgFields) THEN [cfg |-> c, exc |-> "none"]
    ELSE IF a[CfgFields[i]] <= 0 THEN [cfg |-> c, exc |-> "ValueError"]
    ELSE ApplyCfg([c EXCEPT ![CfgFields[i]] = a[CfgFields[i]]], a, i + 1)

ConsoleFacility(a, c) ==
    Fac(HANDLE_CONSOLE, "console", "", 0, 0, c.max_line_length, c.colorize_timeout_ms,
        a.logger_color)

ThrottleInit ==
    [window_started_at |-> 0, writes_in_current_window |-> 0,
     dropped_in_current_window |-> 0, throttle_dropped_total |-> 0,
     throttle_dropped_by_handle |-> << >>]

\* ---------------------------------------------------------------- actions
Last(op, level, nature, handles, m) ==
    [op |-> op, level |-> level, nature |-> nature, handles |-> handles,
     min_level |-> logger_level, exc |-> m.exc, gated |-> m.gated,
     selected |-> m.selected, tr |-> m.tr]
NoLast == Last("init", "", "", None, M0)

\* the throttle checks of the window that is open: how many there were, for
\* which handles, how many were admitted, how many admitted writes returned
\* normally, and the drop counters when the window opened
WinAfter(w, pre, m) ==
    LET opened == m.thr.window_started_at # pre.window_started_at
        base == IF opened
                THEN [n |-> 0, hs |-> {}, admitted |-> 0, admitted_by |-> << >>,
                      persisted |-> 0,
                      base_total |-> pre.throttle_dropped_total,
                      base_by |-> pre.throttle_dropped_by_handle,
                      cap |-> cfg.max_writes_per_second, cap_changed |-> FALSE]
                ELSE w
        idx(what) == {i \in 1..Len(m.tr) : m.tr[i].what = what}
    IN [base EXCEPT
          !.n = @ + Cardinality(idx("admit")) + Cardinality(idx("drop")),
          !.hs = @ \cup {m.tr[i].h : i \in idx("admit") \cup idx("drop")},
          !.admitted = @ + Cardinality(idx("admit")),
          !.admitted_by = [h \in DOMAIN @ \cup {m.tr[i].h : i \in idx("admit")} |->
                             Get(@, h) + Cardinality({i \in idx("admit") : m.tr[i].h = h})],
          !.persisted = @ + Cardinality({i \in idx("record") : m.tr[i].exc = "none"})]
WinInit ==
    [n |-> 0, hs |-> {}, admitted |-> 0, admitted_by |-> << >>, persisted |-> 0,
     base_total |-> 0,
     base_by |-> << >>, cap |-> 0, cap_changed |-> FALSE]

Idle == pc = [t \in DOMAIN pc |-> "idle"]
\* the locals of a call: the handle being served, the counter value read
\* by "+= 1", the facility built by create
NoLocals == [h |-> "", w |-> 0, fac |-> NoFac]

ThreadIds == {1, 2}
ThreadVars == <<lock_owner, pc, tl>>
EnvVars == <<dir_symlink, io_error, closed, tampered, env_steps>>

\* router.log(message, level, nature, handles); budget is how far the
\* colorizer gets before its deadline
LogCall(message, level, nature, handles, budget) ==
    /\ LET m == log(message, level, nature, handles, budget) IN
       /\ thr' = m.thr
       /\ fs' = m.fs
       /\ facilities' = m.facs
       /\ last' = Last("log", level, nature, handles, m)
       /\ win' = WinAfter(win, thr, m)
    /\ calls' = calls + 1
    /\ UNCHANGED <<now, logger_level, cfg, EnvVars, ThreadVars>>

PathOf(h) == IF h = "web" THEN "web.html" ELSE "app.log"

AddLogFile(log_handle, rotate_on_start, rotations_to_keep) ==
    /\ ~Registered(facilities, log_handle) \/ log_handle = HANDLE_CONSOLE
    /\ LET m == add_log_file(log_handle, PathOf(log_handle), rotate_on_start,
                             rotations_to_keep) IN
       /\ fs' = m.fs
       /\ facilities' = m.facs
       /\ last' = Last("add_log_file", "", "", List(<<log_handle>>), m)
    /\ UNCHANGED <<calls, now, logger_level, cfg, thr, win, EnvVars, ThreadVars>>

AddHtmlLogFile(log_handle, title_length, html_theme, refresh_seconds, rotate_on_start, rotations_to_keep) ==
    /\ ~Registered(facilities, log_handle) \/ log_handle = HANDLE_CONSOLE
    /\ LET m == add_html_log_file(log_handle, PathOf(log_handle), title_length, html_theme,
                                  refresh_seconds, rotate_on_start, rotations_to_keep) IN
       /\ fs' = m.fs
       /\ facilities' = m.facs
       /\ last' = Last("add_html_log_file", "", "", List(<<log_handle>>), m)
    /\ UNCHANGED <<calls, now, logger_level, cfg, thr, win, EnvVars, ThreadVars>>

\* a construction that builds the router anew: the throttle state and the
\* facility map start over
Construct_resetting(a) ==
    /\ LET lv == validate_level(a.logger_level)
           r == ApplyCfg(cfg, a, 1)
       IN IF lv = ""
          THEN /\ last' = Last("init", a.logger_level, "", None, [M0 EXCEPT !.exc = "ValueError"])
               /\ UNCHANGED <<logger_level, cfg, facilities, win, thr>>
          ELSE /\ logger_level' = lv
               /\ cfg' = r.cfg
               /\ thr' = ThrottleInit
               /\ facilities' =
                     IF r.exc = "none" THEN <<ConsoleFacility(a, r.cfg)>> ELSE facilities
               /\ win' = WinInit
               /\ last' = Last("init", a.logger_level, "", None, [M0 EXCEPT !.exc = r.exc])
    /\ UNCHANGED <<now, fs, calls, EnvVars, ThreadVars>>
\* LoggerRouter(...) on the existing instance: __new__ returns it, __init__
\* assigns the level and then each option as it validates it, keeps the
\* throttle fields and the facility map it finds, and reconfigures the console
Construct(a) ==
    /\ LET lv == validate_level(a.logger_level)
           r == ApplyCfg(cfg, a, 1)
           console == FacIndex(facilities, HANDLE_CONSOLE)
       IN IF lv = ""
          THEN /\ last' = Last("init", a.logger_level, "", None, [M0 EXCEPT !.exc = "ValueError"])
               /\ UNCHANGED <<logger_level, cfg, facilities, win>>
          ELSE /\ logger_level' = lv
               /\ cfg' = r.cfg
               /\ facilities' =
                     IF r.exc = "none" /\ facilities[console].kind = "console"
                     THEN [facilities EXCEPT ![console] = ConsoleFacility(a, r.cfg)]
                     ELSE facilities
               /\ win' = [win EXCEPT !.cap_changed =
                             @ \/ r.cfg.max_writes_per_second # cfg.max_writes_per_second]
               /\ last' = Last("init", a.logger_level, "", None, [M0 EXCEPT !.exc = r.exc])
    /\ UNCHANGED <<now, thr, fs, calls, EnvVars, ThreadVars>>

SetLevel(level) ==
    /\ IF validate_level(level) = ""
       THEN /\ last' = Last("set_level", level, "", None, [M0 EXCEPT !.exc = "ValueError"])
            /\ UNCHANGED logger_level
       ELSE /\ logger_level' = validate_level(level)
            /\ last' = Last("set_level", level, "", None, M0)
    /\ UNCHANGED <<now, calls, cfg, thr, facilities, fs, win, EnvVars, ThreadVars>>

\* time passes
Tick ==
    /\ now' = now + 1
    /\ UNCHANGED <<logger_level, cfg, thr, facilities, fs, last, calls, win, EnvVars,
                   ThreadVars>>

\* The environment: another process replaces or removes a log target, turns
\* the directory into a link, makes a target unwritable, closes the console
\* stream; a test patches the renderer.
\* (the model lets the environment act once in a behaviour)
EnvStep ==
    /\ env_steps = 0
    /\ env_steps' = 1
    /\ UNCHANGED <<now, logger_level, cfg, thr, facilities, last, calls, win, ThreadVars>>

EnvReplace(p, slot, node) ==
    /\ EnvStep
    /\ fs[p][slot] # node
    /\ fs' = [fs EXCEPT ![p][slot] = node]
    /\ UNCHANGED <<dir_symlink, io_error, closed, tampered>>

EnvDirSymlink ==
    /\ EnvStep
    /\ ~dir_symlink
    /\ dir_symlink' = TRUE
    /\ UNCHANGED <<fs, io_error, closed, tampered>>

EnvIoError(p) ==
    /\ EnvStep
    /\ p \notin io_error
    /\ io_error' = io_error \cup {p}
    /\ UNCHANGED <<fs, dir_symlink, closed, tampered>>

EnvConsoleBreaks(stream) ==
    /\ EnvStep
    /\ stream \notin closed
    /\ closed' = closed \cup {stream}
    /\ UNCHANGED <<fs, dir_symlink, io_error, tampered>>

Tamper(mode) ==
    /\ EnvStep
    /\ tampered # mode
    /\ tampered' = mode
    /\ UNCHANGED <<fs, dir_symlink, io_error, closed>>

\* a test patches HtmlFileFacility._syntax_class_to_html, or restores it
Patch(mode) ==
    /\ tampered # mode
    /\ tampered' = mode
    /\ UNCHANGED <<now, logger_level, cfg, thr, facilities, fs, dir_symlink, io_error,
                   closed, last, calls, env_steps, win, ThreadVars>>

\* ------------------------------------------------------------ the router
\* Construction arguments the model draws from.
Args(level, mw, ws, mh) ==
    [DefaultArgs EXCEPT !.logger_level = level, !.max_writes_per_second = mw,
                        !.throttle_window_seconds = ws, !.max_log_handles_per_call = mh]

\* everything but the record of the last operation, in an environment where
\* the targets of io are unwritable and the streams of cl are closed
InitIn(a, io, cl) ==
    /\ now = 1
    /\ logger_level = validate_level(a.logger_level)
    /\ cfg = CfgOf(a)
    /\ thr = ThrottleInit
    /\ facilities = <<ConsoleFacility(a, CfgOf(a))>>
    /\ fs = [p \in Paths |-> [i \in Slots |-> Missing]]
    /\ dir_symlink = FALSE
    /\ io_error = io
    /\ closed = cl
    /\ tampered = "no"
    /\ calls = 0
    /\ env_steps = 0
    /\ win = WinInit
    /\ lock_owner = 0
    /\ pc = [t \in ThreadIds |-> "idle"]
    /\ tl = [t \in ThreadIds |-> NoLocals]
InitRest(a) == InitIn(a, {}, {})

InitWith(a) ==
    /\ InitRest(a)
    /\ last = [op |-> "init", level |-> a.logger_level, nature |-> "", handles |-> None,
               min_level |-> validate_level(a.logger_level), exc |-> "none",
               gated |-> FALSE, selected |-> << >>, tr |-> << >>]

RouterArgs == {Args(LEVEL_INFO, 1, 2, 2), Args(LEVEL_DEBUG, 2, 2, 2)}
Init == \E a \in RouterArgs : InitWith(a)

RouterCalls ==
    {<<LEVEL_INFO, NATURE_INFO, None>>,
     <<LEVEL_INFO, NATURE_INFO, List(<<"app">>)>>,
     <<LEVEL_INFO, NATURE_ERROR, List(<<"app", "web">>)>>,
     <<LEVEL_DEBUG, NATURE_INFO, List(<<"app">>)>>,
     <<LEVEL_DEBUG, NATURE_INFO, List(<<"web", "app", "console">>)>>,
     <<"TRACE", NATURE_INFO, List(<<"app">>)>>,
     <<LEVEL_INFO, "BOGUS", List(<<"app">>)>>}

Next ==
    \/ \E c \in RouterCalls :
          calls < MaxCalls /\ LogCall(<<"a">>, c[1], c[2], c[3], NEVER)
    \/ \E h \in {"app", "console"} : AddLogFile(h, FALSE, 0)
    \/ AddHtmlLogFile("web", 1, "dark", 10, FALSE, 0)
    \/ \E level \in {"debug", LEVEL_INFO} : SetLevel(level)
    \/ now < MaxTime /\ Tick

Spec == Init /\ [][Next]_vars

\* ------------------------------------------------- properties of the router
\* positions of the entries of one kind in the record of a call
Idx(tr, what) == {i \in 1..Len(tr) : tr[i].what = what}
\* the level of the call lies below the minimum level in force when it ran
BelowMinimum(l) ==
    LEVEL_PRIORITY(validate_level(l.level)) < LEVEL_PRIORITY(l.min_level)

\* C2: a facility's write is invoked with the record of a log call only if
\* the call's level is not below the configured minimum level and the
\* throttle admitted that record for that handle: every write of the record
\* directly follows the admission of its handle, in a call that passed the gate.
C2_WriteOnlyIfGatePassedAndAdmitted ==
    last.op = "log" =>
        \A i \in Idx(last.tr, "record") :
            /\ validate_level(last.level) # ""
            /\ ~BelowMinimum(last)
            /\ i > 1
            /\ last.tr[i - 1] = Ev(last.tr[i].h, "admit", "none")
\* a call in which one handle was dropped and another admitted and written
C2_Witness ==
    /\ last.op = "log"
    /\ Idx(last.tr, "record") # {}
    /\ Idx(last.tr, "drop") # {}

\* C3: a log call with handles = [h] invokes no write of its record on any
\* facility other than h.
C3_SingleHandleOnly ==
    (last.op = "log" /\ ~last.handles.none /\ Len(last.handles.list) = 1) =>
        \A i \in Idx(last.tr, "record") : last.tr[i].h = last.handles.list[1]
\* three facilities are registered and a call for "app" alone wrote to it
C3_Witness ==
    /\ last.op = "log"
    /\ last.handles = List(<<"app">>)
    /\ Len(facilities) = 3
    /\ Idx(last.tr, "record") # {}

\* C4: while a throttle window with cap M is open and all n throttle checks
\* in it were for one handle h, exactly min(n, M) writes were persisted and
\* the drop counters grew by max(0, n - M) since the window opened, in total
\* and for h alike; on a router without earlier drops they equal max(0, n - M).
C4_SingleHandleWindow ==
    (win.n > 0 /\ Cardinality(win.hs) = 1 /\ ~win.cap_changed) =>
        LET h == CHOOSE x \in win.hs : TRUE
            dropped == Max(0, win.n - win.cap)
        IN /\ win.admitted = Min(win.n, win.cap)
           /\ win.persisted = Min(win.n, win.cap)
           /\ thr.throttle_dropped_total - win.base_total = dropped
           /\ Get(thr.throttle_dropped_by_handle, h) - Get(win.base_by, h) = dropped
           /\ win.base_total = 0 =>
                 /\ thr.throttle_dropped_total = dropped
                 /\ Get(thr.throttle_dropped_by_handle, h) = dropped
\* cap 1, three calls for "app" in one window: one persisted, two dropped
C4_Witness ==
    /\ win.cap = 1
    /\ win.n = 3
    /\ win.hs = {"app"}
    /\ win.persisted = 1
    /\ thr.throttle_dropped_total = 2
    /\ Get(thr.throttle_dropped_by_handle, "app") = 2

\* what is wrong with the arguments of the log call l, against the limits
\* and the registry it ran with
BadEnum(l) == validate_level(l.level) = "" \/ validate_nature(l.nature) = ""
TooManyHandles(l) ==
    ~l.handles.none /\ Len(l.handles.list) > cfg.max_log_handles_per_call
UnknownHandle(l) ==
    /\ ~l.handles.none
    /\ \E i \in 1..Len(l.handles.list) : ~Registered(facilities, l.handles.list[i])
BadCall(l) == BadEnum(l) \/ TooManyHandles(l) \/ UnknownHandle(l)

\* C8 as stated: a log call with an invalid level or nature, with more
\* handles than max_log_handles_per_call, or naming an unregistered handle
\* raises a validation error.
C8_BadCallRaises ==
    (last.op = "log" /\ BadCall(last)) => last.exc = "ValueError"

\* C8: a log call with an invalid level or nature raises a validation error;
\* one with too many handles or an unregistered handle raises it when its
\* level passes the level gate, and returns silently when its level is below
\* the minimum; in every one of these cases no facility receives the record
\* and the throttle counters, the files and the registry are unchanged.
C8_BadCallWritesNothing ==
    [][(calls' = calls + 1 /\ BadCall(last')) =>
          /\ last'.tr = << >>
          /\ thr' = thr
          /\ fs' = fs
          /\ facilities' = facilities
          /\ last'.exc = IF BadEnum(last') \/ ~BelowMinimum(last')
                         THEN "ValueError" ELSE "none"]_vars
\* a call that passed the gate and named a registered and an unregistered
\* handle was rejected
C8_Witness ==
    /\ last.op = "log"
    /\ last.exc = "ValueError"
    /\ ~BadEnum(last)
    /\ last.handles = List(<<"app", "web">>)
    /\ Registered(facilities, "app")
    /\ ~Registered(facilities, "web")

\* --------------------------------------------- the router among faults
\* The router of Spec in an environment that replaces a log target by a
\* symbolic link, makes a target unwritable, closes a console stream or
\* patches the HTML renderer.
FaultArgs ==
    {Args(LEVEL_INFO, 1, 1, 2),
     [Args(LEVEL_INFO, 2, 1, 2) EXCEPT !.plain_log_max_file_size_bytes = 1]}
InitFaults == \E a \in FaultArgs : InitWith(a)

FaultCalls ==
    {<<LEVEL_INFO, NATURE_INFO, None>>,
     <<LEVEL_INFO, NATURE_ERROR, None>>,
     <<LEVEL_INFO, NATURE_ERROR, List(<<"console">>)>>,
     <<LEVEL_INFO, NATURE_INFO, List(<<"app">>)>>,
     <<LEVEL_INFO, NATURE_INFO, List(<<"web", "app">>)>>}

NextFaults ==
    \/ \E c \in FaultCalls :
          calls < MaxFaultCalls /\ LogCall(<<"a">>, c[1], c[2], c[3], NEVER)
    \/ \E rot \in BOOLEAN, keep \in {0, 1} : AddLogFile("app", rot, keep)
    \/ AddHtmlLogFile("web", 1, "dark", 10, FALSE, 0)
    \/ \E p \in Paths, slot \in {0, 1} : EnvReplace(p, slot, Symlink)
    \/ EnvDirSymlink
    \/ \E p \in Paths : EnvIoError(p)
    \/ \E stream \in {"stdout", "stderr"} : EnvConsoleBreaks(stream)
    \/ Tamper("attr")

SpecFaults == InitFaults /\ [][NextFaults]_vars

\* positions of the writes of the call's record that raised
FailedWrites(tr) == {i \in Idx(tr, "record") : tr[i].exc # "none"}

\* C5 as stated: in a log call that selects several handles, a failure of
\* one facility's write yields a diagnostic console line, and every selected
\* handle still gets its throttle check and, when admitted, the write of the
\* record.
C5_FailureIsolated ==
    (last.op = "log" /\ Len(last.selected) > 1 /\ FailedWrites(last.tr) # {}) =>
        /\ \A i \in FailedWrites(last.tr) :
              /\ i < Len(last.tr)
              /\ last.tr[i + 1].h = HANDLE_CONSOLE
              /\ last.tr[i + 1].what \in {"security", "failure"}
              /\ last.tr[i + 1].exc = "none"
        /\ Cardinality(Idx(last.tr, "admit")) + Cardinality(Idx(last.tr, "drop"))
              = Len(last.selected)
        /\ Cardinality(Idx(last.tr, "record")) = Cardinality(Idx(last.tr, "admit"))

\* C6 as stated: whichever facility's write fails in a log call, the call
\* returns normally.
C6_LogReturnsNormally ==
    (last.op = "log" /\ FailedWrites(last.tr) # {}) => last.exc = "none"

HtmlArgs == Args(LEVEL_INFO, DEFAULT_MAX_WRITES_PER_SECOND, 1, 2)
InitHtml == InitWith(HtmlArgs)

\* message, nature, colorizer budget
HtmlCalls ==
    {<<<<"a">>, NATURE_INFO, NEVER>>,
     <<<<"k", "=", "Q", "v", "Q">>, NATURE_ERROR, NEVER>>,
     <<<<"a", "NL", "1">>, NATURE_INFO, 4>>,
     <<<<"a">>, NATURE_ERROR, 0>>,
     <<<< >>, NATURE_INFO, NEVER>>}

NextHtml ==
    \/ \E c \in HtmlCalls :
          calls < MaxHtmlCalls
          /\ LogCall(c[1], LEVEL_INFO, c[2], List(<<"web">>), c[3])
    \/ \E rot \in BOOLEAN, keep \in {0, 1} :
          AddHtmlLogFile("web", 1, "dark", 10, rot, keep)
    \/ \E mode \in {"no", "attr", "class"} : Patch(mode)
    \/ EnvReplace(PathOf("web"), 0, Missing)

SpecHtml == InitHtml /\ [][NextHtml]_vars

\* the call's write to "web" was rejected with HtmlSanitizationError
Rejected(l) ==
    /\ l.op = "log"
    /\ \E i \in Idx(l.tr, "record") : l.tr[i] = Ev("web", "record", "HtmlSanitizationError")
Rows(node) == {i \in 1..Len(node.content) : node.content[i].t = "row"}

\* C9 as stated: when the rendered row fails the fragment validator, the
\* document bytes on disk before and after the log call are identical.
C9_RejectedWriteLeavesBytes ==
    [][(calls' = calls + 1 /\ Rejected(last')) => fs' = fs]_vars

\* C9: when the rendered row fails the fragment validator, no row is
\* appended: a document that exists and is not empty when the write starts
\* is byte-identical afterwards; a missing or empty one is re-created as the
\* bare template before the row is rejected.
C9_RejectedWriteAppendsNoRow ==
    [][(calls' = calls + 1 /\ Rejected(last')) =>
          IF Exists(fs[PathOf("web")][0]) /\ StSize(fs[PathOf("web")][0]) > 0
          THEN fs' = fs
          ELSE fs' = [fs EXCEPT ![PathOf("web")][0] = Regular(<<Tpl>>)]]_vars
\* the document holds a row and a later write through the patched renderer
\* was rejected
C9_Witness ==
    /\ Rejected(last)
    /\ tampered = "attr"
    /\ Rows(fs[PathOf("web")][0]) # {}

\* C10: every row block in the HTML document and in its rotated copies
\* passes the fragment validator: a row is appended only by a write that
\* validated it.
C10_DocumentRowsAreValid ==
    \A slot \in Slots : \A i \in Rows(fs[PathOf("web")][slot]) :
        LET e == fs[PathOf("web")][slot].content[i]
        IN validate_rendered_row_or_raise(RowTokens(e.nature, e.ev))
\* an accepted write, then a rejected one through a renderer emitting a
\* class outside the allow-list
C10_Witness ==
    /\ Rejected(last)
    /\ tampered = "class"
    /\ Cardinality(Rows(fs[PathOf("web")][0])) = 1

\* ------------------------------------------------------ several threads
\* Two threads call log, add_log_file and the constructor on the one router.
\* A call is a sequence of steps between which the interpreter may switch
\* threads; only __new__/__init__ take LoggerRouter._instance_lock.
ThreadArgs == {Args(LEVEL_INFO, 1, 1, 2), Args(LEVEL_INFO, 2, 1, 2)}
InitThreads == InitWith(Args(LEVEL_INFO, 1, 1, 2))

Goto(t, where, locals) ==
    /\ pc' = [pc EXCEPT ![t] = where]
    /\ tl' = [tl EXCEPT ![t] = locals]

\* log up to the call of _should_drop_write_due_to_throttle(handle)
T_LogEnter(t, h) ==
    /\ pc[t] = "idle"
    /\ Registered(facilities, h)
    /\ calls' = calls + 1
    /\ Goto(t, "check", [NoLocals EXCEPT !.h = h])
    /\ UNCHANGED <<now, logger_level, cfg, thr, facilities, fs, last, win, lock_owner,
                   EnvVars>>

\* _should_drop_write_due_to_throttle up to the comparison with the cap
T_ThrottleCheck(t) ==
    /\ pc[t] = "check"
    /\ LET t1 == IF thr.window_started_at <= 0
                 THEN [thr EXCEPT !.window_started_at = now] ELSE thr
           expired == now - t1.window_started_at >= cfg.throttle_window_seconds
           t3 == IF expired
                 THEN [t1 EXCEPT !.window_started_at = now,
                                 !.writes_in_current_window = 0,
                                 !.dropped_in_current_window = 0]
                 ELSE t1
           admit == t3.writes_in_current_window < cfg.max_writes_per_second
           w0 == IF t3.window_started_at # thr.window_started_at
                 THEN [WinInit EXCEPT !.base_total = thr.throttle_dropped_total,
                                      !.base_by = thr.throttle_dropped_by_handle,
                                      !.cap = cfg.max_writes_per_second]
                 ELSE win
       IN /\ thr' = t3
          /\ win' = IF admit
                    THEN [w0 EXCEPT !.n = @ + 1, !.admitted = @ + 1,
                                    !.cap = Max(@, cfg.max_writes_per_second)]
                    ELSE w0
          /\ Goto(t, IF admit THEN "admit_load" ELSE "drop", tl[t])
    /\ UNCHANGED <<now, logger_level, cfg, facilities, fs, last, calls, lock_owner,
                   EnvVars>>

\* the drop branch: the window's and the total's counter ...
T_ThrottleDrop(t) ==
    /\ pc[t] = "drop"
    /\ thr' = [thr EXCEPT !.dropped_in_current_window = @ + 1,
                          !.throttle_dropped_total = @ + 1]
    /\ win' = [win EXCEPT !.n = @ + 1]
    /\ Goto(t, "drop_by_handle", tl[t])
    /\ UNCHANGED <<now, logger_level, cfg, facilities, fs, last, calls, lock_owner,
                   EnvVars>>

\* ... then the handle's entry, return True, next handle
T_ThrottleDropByHandle(t) ==
    /\ pc[t] = "drop_by_handle"
    /\ thr' = [thr EXCEPT !.throttle_dropped_by_handle = Bump(@, tl[t].h)]
    /\ Goto(t, "idle", NoLocals)
    /\ UNCHANGED <<now, logger_level, cfg, facilities, fs, last, calls, win, lock_owner,
                   EnvVars>>

\* self._writes_in_current_window += 1: the read ...
T_AdmitLoad(t) ==
    /\ pc[t] = "admit_load"
    /\ Goto(t, "admit_store", [tl[t] EXCEPT !.w = thr.writes_in_current_window])
    /\ UNCHANGED <<now, logger_level, cfg, thr, facilities, fs, last, calls, win,
                   lock_owner, EnvVars>>

\* ... and the write
T_AdmitStore(t) ==
    /\ pc[t] = "admit_store"
    /\ thr' = [thr EXCEPT !.writes_in_current_window = tl[t].w + 1]
    /\ Goto(t, "write", tl[t])
    /\ UNCHANGED <<now, logger_level, cfg, facilities, fs, last, calls, win, lock_owner,
                   EnvVars>>

\* facility.write(record) inside log's try
T_Write(t) ==
    /\ pc[t] = "write"
    /\ LET m == HandleWriteError(
                    FacilityWrite(M0, tl[t].h,
                                  LogRecord(<<"a">>, LEVEL_INFO, NATURE_INFO, now), NEVER))
       IN /\ fs' = m.fs
          /\ facilities' = m.facs
    /\ Goto(t, "idle", NoLocals)
    /\ UNCHANGED <<now, logger_level, cfg, thr, last, calls, win, lock_owner, EnvVars>>

\* LoggerRouter(...): __init__ enters "with self._instance_lock"
T_InitEnter(t) ==
    /\ pc[t] = "idle"
    /\ lock_owner = 0
    /\ lock_owner' = t
    /\ Goto(t, "init", NoLocals)
    /\ UNCHANGED <<now, logger_level, cfg, thr, facilities, fs, last, calls, win, EnvVars>>

\* ... stores the limits and leaves the with block
T_InitExit(t, a) ==
    /\ pc[t] = "init"
    /\ lock_owner = t
    /\ logger_level' = validate_level(a.logger_level)
    /\ cfg' = ApplyCfg(cfg, a, 1).cfg
    /\ facilities' = [facilities EXCEPT ![FacIndex(facilities, HANDLE_CONSOLE)] =
                                            ConsoleFacility(a, ApplyCfg(cfg, a, 1).cfg)]
    /\ lock_owner' = 0
    /\ Goto(t, "idle", NoLocals)
    /\ UNCHANGED <<now, thr, fs, last, calls, win, EnvVars>>

\* add_log_file up to FileFacility.create(...)
T_AddEnter(t) ==
    /\ pc[t] = "idle"
    /\ ~Registered(facilities, "app")
    /\ LET r == FileFacility_create(fs, "app", PathOf("app"), FALSE, 0,
                                    cfg.plain_log_max_file_size_bytes)
       IN /\ fs' = r.fs
          /\ Goto(t, "put", [NoLocals EXCEPT !.fac = r.fac])
    /\ UNCHANGED <<now, logger_level, cfg, thr, facilities, last, calls, win, lock_owner,
                   EnvVars>>

\* self._facilities[log_handle] = facility
T_AddPut(t) ==
    /\ pc[t] = "put"
    /\ facilities' = PutFacility(facilities, tl[t].fac)
    /\ Goto(t, "idle", NoLocals)
    /\ UNCHANGED <<now, logger_level, cfg, thr, fs, last, calls, win, lock_owner, EnvVars>>

NextThreads ==
    \/ \E t \in ThreadIds, h \in {HANDLE_CONSOLE, "app"} :
          calls < MaxThreadCalls /\ T_LogEnter(t, h)
    \/ \E t \in ThreadIds : T_ThrottleCheck(t)
    \/ \E t \in ThreadIds : T_ThrottleDrop(t)
    \/ \E t \in ThreadIds : T_ThrottleDropByHandle(t)
    \/ \E t \in ThreadIds : T_AdmitLoad(t)
    \/ \E t \in ThreadIds : T_AdmitStore(t)
    \/ \E t \in ThreadIds : T_Write(t)
    \/ \E t \in ThreadIds : T_InitEnter(t)
    \/ \E t \in ThreadIds, a \in ThreadArgs : T_InitExit(t, a)
    \/ \E t \in ThreadIds : T_AddEnter(t)
    \/ \E t \in ThreadIds : T_AddPut(t)
    \/ now < MaxTime /\ Tick

SpecThreads == InitThreads /\ [][NextThreads]_vars

\* where a call stands inside a throttle-window reset or admission check,
\* a facility-map mutation, or the constructor's reconfiguration
InThrottle == {"check", "drop", "drop_by_handle", "admit_load", "admit_store"}
InCritical == InThrottle \cup {"put", "init"}

\* C1 as stated: calls of log, add_log_file and the constructor are
\* serialized by one lock: no two threads are at the same time inside a
\* throttle-window reset or admission check, a facility-map mutation or a
\* reconfiguration.
C1_CallsAreSerialized ==
    \A t1, t2 \in ThreadIds :
        (t1 # t2 /\ pc[t1] \in InCritical) => pc[t2] \notin InCritical

\* ------------------------------------------------- functions on messages
\* A function of the program applied to an argument drawn from a bounded
\* set: the record of the last operation holds the argument, then the result.
\* all sequences over an alphabet up to a length
RECURSIVE SeqsUpTo(_, _)
SeqsUpTo(S, n) ==
    IF n = 0 THEN {<< >>}
    ELSE LET shorter == SeqsUpTo(S, n - 1)
         IN shorter \cup {Append(s, x) : s \in {t \in shorter : Len(t) = n - 1}, x \in S}

Given(x) == [op |-> "given", arg |-> x, out |-> << >>]
Apply(op, out) ==
    /\ last.op = "given"
    /\ last' = [last EXCEPT !.op = op, !.out = out]
    /\ UNCHANGED <<now, logger_level, cfg, thr, facilities, fs, calls, win, EnvVars,
                   ThreadVars>>

\* HtmlFileFacility.write's row for a message that holds markup characters
PayloadChars == {"a", "<", ">", "&", "Q", "SQ", "=", "NL"}
RenderInputs ==
    {[message |-> m, max_line_length |-> l, budget |-> b] :
        m \in SeqsUpTo(PayloadChars, MaxMsgLen), l \in {2, DEFAULT_MAX_LINE_LENGTH},
        b \in {NEVER, 0, 5}}
InitRender == InitRest(DefaultArgs) /\ \E x \in RenderInputs : last = Given(x)
RenderRow ==
    Apply("render",
          RowTokens("badge-info",
                    render_html_message(last.arg.message, last.arg.max_line_length,
                                        last.arg.budget)))
SpecRender == InitRender /\ [][RenderRow]_vars

\* the characters of the text of a row, in order
TextChars(toks) ==
    LET texts == SelectSeq(toks, LAMBDA t : t.k = "text")
    IN [i \in 1..Len(texts) |-> texts[i].ch]
HtmlEntities ==
    {<<"&", "a", "m", "p", ";">>, <<"&", "l", "t", ";">>, <<"&", "g", "t", ";">>,
     <<"&", "q", "u", "o", "t", ";">>, <<"&", "#", "x", "2", "7", ";">>}
\* no markup character in the text but as part of a character reference
EscapedText(chars) ==
    \A i \in 1..Len(chars) :
        /\ chars[i] \notin {"<", ">", "Q", "SQ"}
        /\ chars[i] = "&" =>
              \E e \in HtmlEntities :
                  /\ i + Len(e) - 1 <= Len(chars)
                  /\ SubSeq(chars, i, i + Len(e) - 1) = e
\* the tags of the row are those of the empty message's row plus spans that
\* carry one syntax class and enclose text only
SchemaOnly(toks) ==
    LET markup == SelectSeq(toks, LAMBDA t : t.k # "text")
        fixed == RowTokens("badge-info", << >>)
        spans == SubSeq(markup, Len(fixed) - 2, Len(markup) - 3)
    IN /\ Len(markup) >= Len(fixed)
       /\ SubSeq(markup, 1, Len(fixed) - 3) = SubSeq(fixed, 1, Len(fixed) - 3)
       /\ SubSeq(markup, Len(markup) - 2, Len(markup)) = SubSeq(fixed, Len(fixed) - 2, Len(fixed))
       /\ Len(spans) % 2 = 0
       /\ \A i \in 1..Len(spans) :
             IF i % 2 = 1
             THEN /\ spans[i].k = "start"
                  /\ spans[i].tag = "span"
                  /\ Len(spans[i].attrs) = 1
                  /\ spans[i].attrs[1].name = "class"
                  /\ Len(spans[i].attrs[1].value) = 1
                  /\ spans[i].attrs[1].value[1] \in ALLOWED_HTML_ROW_CLASSES
             ELSE spans[i] = End("span")

\* C11: whatever the message, the text of the row written for it holds no
\* raw '<', '>', '&' or quote, only their character references, and the
\* row's tags are the fixed ones of the row schema plus spans with one
\* syntax class each: the message opens or closes no tag and adds no
\* attribute.
C11_MessageIsEscaped ==
    last.op = "render" => EscapedText(TextChars(last.out)) /\ SchemaOnly(last.out)
\* the row of the message <a> rendered within its deadline
C11_Witness ==
    /\ last.op = "render"
    /\ last.arg.message = <<"<", "a", ">">>
    /\ last.arg.budget = NEVER
    /\ TextChars(last.out) = <<"&", "l", "t", ";", "a", "&", "g", "t", ";">>

\* ------------------------------------- HTML documents: rows and the size cap
\* SpecHtml with a router whose documents are capped at a few rows, and with a
\* document that an earlier run left at the path before the registration.
DocArgs == {HtmlArgs, [HtmlArgs EXCEPT !.max_html_document_bytes = SmallDocumentBytes]}
InitDocs == \E a \in DocArgs : InitWith(a)
\* the template and the row of an INFO record "a"
LeftDocument ==
    <<Tpl,
      Entry("row", 1, 1, "badge-info", <<"info">>,
            <<Start("span", <<"syn-base">>), Tok("text", "", << >>, "a"), End("span")>>)>>
NextDocs ==
    \/ \E c \in HtmlCalls :
          calls < MaxHtmlCalls
          /\ LogCall(c[1], LEVEL_INFO, c[2], List(<<"web">>), c[3])
    \/ \E rot \in BOOLEAN : AddHtmlLogFile("web", 1, "dark", 10, rot, 1)
    \/ \E mode \in {"no", "attr"} : Patch(mode)
    \/ ~Registered(facilities, "web") /\ EnvReplace(PathOf("web"), 0, Regular(LeftDocument))
SpecDocs == InitDocs /\ [][NextDocs]_vars

\* the call's write to "web" returned
Written(l) ==
    /\ l.op = "log"
    /\ \E i \in Idx(l.tr, "record") : l.tr[i] = Ev("web", "record", "none")
RowCount(fsx) == Cardinality(Rows(fsx[PathOf("web")][0]))

\* C12: a log call adds at most one row marker to the document, and adds
\* it only when its write succeeded: the markers never exceed those present
\* at creation plus the successful writes.
C12_RowsBoundedByWrites ==
    [][calls' = calls + 1 =>
          RowCount(fs') <= RowCount(fs) + (IF Written(last') THEN 1 ELSE 0)]_vars
\* a document registered with one row, then a successful and a rejected write
C12_Witness ==
    /\ Rejected(last)
    /\ calls = 2
    /\ RowCount(fs) = 2
    /\ fs[PathOf("web")][0].content[2] = LeftDocument[2]

\* the row HtmlFileFacility.write builds for a call
RowOf(fac, c) ==
    LET rec == LogRecord(prepare_message(c[1], cfg), LEVEL_INFO, c[2], now)
    IN Entry("row", fac.line_number + 1, now, badge_css_class(rec), <<badge_icon(rec)>>,
             render_html_message(rec.message, fac.max_line_length, c[3]))

\* C20: a write of a valid row to a writable document: when the document's
\* size plus the row's size exceeds max_html_document_bytes the write raises
\* HtmlSanitizationError and the document is as it was; otherwise the
\* document is the former one followed by the whole row, and is within the
\* cap.
C20_SizeCap ==
    [][\A c \in HtmlCalls :
          (/\ calls' = calls + 1
           /\ Registered(facilities, "web")
           /\ LogCall(c[1], LEVEL_INFO, c[2], List(<<"web">>), c[3])
           /\ ensure_document(fs, PathOf("web")).exc = "none") =>
             LET fac == facilities[FacIndex(facilities, "web")]
                 doc == ensure_document(fs, PathOf("web")).fs[PathOf("web")][0]
                 row == RowOf(fac, c)
             IN validate_rendered_row_or_raise(RowTokens(row.nature, row.ev)) =>
                   IF StSize(doc) + EntryBytes(row) > fac.max_bytes
                   THEN Rejected(last') /\ fs'[PathOf("web")][0] = doc
                   ELSE /\ Written(last')
                        /\ fs'[PathOf("web")][0] = Regular(doc.content \o <<row>>)
                        /\ StSize(fs'[PathOf("web")][0]) <= fac.max_bytes]_vars
\* a valid row refused by a document that has no room for it
C20_Witness ==
    /\ Rejected(last)
    /\ tampered = "no"
    /\ cfg.max_html_document_bytes = SmallDocumentBytes
    /\ RowCount(fs) = 2
    /\ StSize(fs[PathOf("web")][0]) <= SmallDocumentBytes

\* ------------------------------------------------------- symbolic links
\* The router in an environment that puts a symbolic link, dangling or to a
\* file with content, at a log target or at a member of its rotation chain,
\* or makes the directory of the targets a link.  Every write to "app" of
\* the second router rotates the chain.
LinkArgs ==
    {Args(LEVEL_INFO, DEFAULT_MAX_WRITES_PER_SECOND, 1, 2),
     [Args(LEVEL_INFO, DEFAULT_MAX_WRITES_PER_SECOND, 1, 2)
         EXCEPT !.plain_log_max_file_size_bytes = 1]}
InitLinks == \E a \in LinkArgs : InitWith(a)
RealFile == <<Entry("line", 0, 0, NATURE_INFO, <<"r">>, << >>)>>
LinkCalls == {List(<<"app">>), List(<<"web">>)}
NextLinks ==
    \/ \E h \in LinkCalls :
          calls < MaxFaultCalls /\ LogCall(<<"a">>, LEVEL_INFO, NATURE_INFO, h, NEVER)
    \/ \E rot \in BOOLEAN, keep \in 0..MaxKeep : AddLogFile("app", rot, keep)
    \/ \E rot \in BOOLEAN : AddHtmlLogFile("web", 1, "dark", 10, rot, 1)
    \/ \E p \in Paths, slot \in Slots, node \in {Symlink, LinkTo(RealFile)} :
          EnvReplace(p, slot, node)
    \/ EnvDirSymlink
SpecLinks == InitLinks /\ [][NextLinks]_vars

\* the target is a link or lies under a linked directory
UnsafeTarget(p) == dir_symlink \/ IsLink(fs[p][0])
\* a member F.1 .. F.keep of the chain is a link
UnsafeChain(p, keep) == \E i \in 1..keep : IsLink(fs[p][i])
\* a registration of handle h
Registers(h, rot, keep) ==
    IF h = "web" THEN AddHtmlLogFile("web", 1, "dark", 10, rot, keep)
    ELSE AddLogFile(h, rot, keep)
\* the call's write to h raised exc
WriteRaised(l, h, exc) ==
    /\ l.op = "log"
    /\ \E i \in Idx(l.tr, "record") : l.tr[i] = Ev(h, "record", exc)
\* a write of rec by fac starts with a rotation
Rotates(fac, rec) ==
    /\ fac.kind = "file"
    /\ (IF Exists(fs[fac.path][0]) THEN StSize(fs[fac.path][0]) ELSE 0)
          + EntryBytes(FileLine(rec)) > fac.max_bytes
\* the record of a call of LinkCalls
LinkRecord == LogRecord(prepare_message(<<"a">>, cfg), LEVEL_INFO, NATURE_INFO, now)
\* no step of the program changes, removes or renames a link or the file
\* it points to
LinksUntouched ==
    env_steps' = env_steps =>
        \A p \in Paths, slot \in Slots : IsLink(fs[p][slot]) => fs'[p][slot] = fs[p][slot]

\* C13 as stated: a link at the target, above it or at a member of the
\* rotation chain makes every registration and every write raise
\* UnsafeLogTargetError.
C13_AnyLinkAlwaysRaises ==
    [][/\ \A h \in {"app", "web"}, rot \in BOOLEAN, keep \in 1..MaxKeep :
             (Registers(h, rot, keep) /\ (UnsafeTarget(PathOf(h)) \/ UnsafeChain(PathOf(h), keep)))
                => last'.exc = "UnsafeLogTargetError"
       /\ \A h \in {"app", "web"} :
             (/\ calls' = calls + 1
              /\ Registered(facilities, h)
              /\ last'.handles = List(<<h>>)
              /\ LET fac == facilities[FacIndex(facilities, h)]
                 IN UnsafeTarget(fac.path) \/ UnsafeChain(fac.path, fac.keep))
                => WriteRaised(last', h, "UnsafeLogTargetError")]_vars

\* C13: a link at the target or above it makes every registration and every
\* facility write raise UnsafeLogTargetError; a link at a member F.1 .. F.N
\* of the chain makes every rotation with retention N raise it, the one of a
\* registration with rotate_on_start and the one a write starts; a raising
\* registration registers nothing; and no operation changes, removes or
\* renames a link or the file it points to.
C13_LinkRaisesWhenTouched ==
    [][/\ LinksUntouched
       /\ \A h \in {"app", "web"}, rot \in BOOLEAN, keep \in 0..MaxKeep :
             (/\ Registers(h, rot, keep)
              /\ UnsafeTarget(PathOf(h)) \/ (rot /\ UnsafeChain(PathOf(h), keep)))
                => last'.exc = "UnsafeLogTargetError" /\ facilities' = facilities
       /\ \A h \in {"app", "web"} :
             (/\ calls' = calls + 1
              /\ Registered(facilities, h)
              /\ last'.handles = List(<<h>>)
              /\ LET fac == facilities[FacIndex(facilities, h)]
                 IN \/ UnsafeTarget(fac.path)
                    \/ Rotates(fac, LinkRecord) /\ UnsafeChain(fac.path, fac.keep))
                => WriteRaised(last', h, "UnsafeLogTargetError")]_vars
\* a write that had to rotate a chain whose member F.2 links to a file with
\* content: it raised and the link and the file are as they were
C13_Witness ==
    /\ WriteRaised(last, "app", "UnsafeLogTargetError")
    /\ ~UnsafeTarget(PathOf("app"))
    /\ fs[PathOf("app")][2] = LinkTo(RealFile)

\* ------------------------------------------------ rotation and creation
\* _rotate_files and the facilities' create applied to a chain F, F.1, ..
\* whose members are missing, empty, hold a line of their own, or are links.
OldLine(slot) == Entry("line", slot, 0, NATURE_INFO, <<"o">>, << >>)
Chains ==
    {ch \in [Slots -> {Missing, Symlink} \cup {Regular(c) : c \in {<< >>} \cup {<<OldLine(i)>> : i \in Slots}}] :
        \A slot \in Slots : ch[slot].content \in {<< >>, <<OldLine(slot)>>}}
ChainInputs == {[fs |-> [p \in Paths |-> ch], keep |-> k] : ch \in Chains, k \in 0..MaxKeep}
InitChains == InitRest(DefaultArgs) /\ \E x \in ChainInputs : last = Given(x)
Rotate == Apply("rotate", rotate_files(last.arg.fs, PathOf("app"), last.arg.keep))
CreateFile ==
    Apply("create_file",
          FileFacility_create(last.arg.fs, "app", PathOf("app"), TRUE, last.arg.keep,
                              cfg.plain_log_max_file_size_bytes))
CreateHtml ==
    Apply("create_html",
          HtmlFileFacility_create(last.arg.fs, "web", PathOf("web"), TRUE, last.arg.keep, cfg))
NextChains == Rotate \/ CreateFile \/ CreateHtml
SpecChains == InitChains /\ [][NextChains]_vars

\* the members F .. F.keep of the chain the operation was given are safe
SafeChain(p) == \A i \in 0..last.arg.keep : ~IsLink(last.arg.fs[p][i])

\* C14: rotating F with retention N > 0, all members safe, leaves in
\* F.(i+1) what F.i was for every 0 <= i < N (the former content when F.i
\* existed, nothing when it did not), which discards the former F.N, leaves
\* F existing and empty, and leaves the members past F.N alone.
C14_RotationShiftsChain ==
    (last.op = "rotate" /\ last.arg.keep > 0 /\ SafeChain(PathOf("app"))) =>
        LET old == last.arg.fs[PathOf("app")]
            new == last.out.fs[PathOf("app")]
        IN /\ last.out.exc = "none"
           /\ \A i \in 0..(last.arg.keep - 1) : new[i + 1] = old[i]
           /\ new[0] = Regular(<< >>)
           /\ \A i \in Slots : i > last.arg.keep => new[i] = old[i]
\* F holding a line, F.1 an older one, F.2 an oldest one, rotated with keep=2
C14_Witness ==
    /\ last.op = "rotate"
    /\ last.arg.keep = 2
    /\ \A i \in 0..2 : last.arg.fs[PathOf("app")][i] = Regular(<<OldLine(i)>>)
    /\ last.out.fs[PathOf("app")][2] = Regular(<<OldLine(1)>>)
    /\ last.out.fs[PathOf("app")][1] = Regular(<<OldLine(0)>>)

\* the path of the facility the operation created
CreatedPath == IF last.op = "create_html" THEN PathOf("web") ELSE PathOf("app")
CreatedWithKeepZero ==
    /\ last.op \in {"create_file", "create_html"}
    /\ last.arg.keep = 0
    /\ ~IsLink(last.arg.fs[CreatedPath][0])

\* C15 as stated: creating a facility with rotate_on_start and retention 0 on
\* a safe path leaves an existing, empty target and no rotated copy.
C15_TargetIsEmpty ==
    CreatedWithKeepZero =>
        /\ last.out.exc = "none"
        /\ last.out.fs[CreatedPath][0] = Regular(<< >>)
        /\ \A i \in Slots \ {0} : last.out.fs[CreatedPath][i] = last.arg.fs[CreatedPath][i]

\* C15: creating a facility with rotate_on_start and retention 0 on a safe
\* path (with content, empty or missing) leaves an existing target that
\* holds nothing of its former content, an empty file for a file facility
\* and the bare document template without rows for an HTML facility, and
\* creates no rotated copy.
C15_TargetIsFresh ==
    CreatedWithKeepZero =>
        /\ last.out.exc = "none"
        /\ last.out.fs[CreatedPath][0] =
              (IF last.op = "create_html" THEN Regular(<<Tpl>>) ELSE Regular(<< >>))
        /\ \A i \in Slots \ {0} : last.out.fs[CreatedPath][i] = last.arg.fs[CreatedPath][i]
\* an HTML facility created over a document with content, F.1 missing
C15_Witness ==
    /\ last.op = "create_html"
    /\ last.arg.keep = 0
    /\ last.arg.fs[PathOf("web")][0] = Regular(<<OldLine(0)>>)
    /\ last.arg.fs[PathOf("web")][1] = Missing
    /\ last.out.fs[PathOf("web")][0] = Regular(<<Tpl>>)
    /\ last.out.fs[PathOf("web")][1] = Missing

\* ------------------------------------------------- prepared messages
\* _prepare_message applied to every message of up to MaxMsgLen characters
\* with line endings of the three kinds, under small and large caps.
MessageChars == {"a", "NL", "CR"}
PrepareInputs ==
    {[message |-> m,
      caps |-> [max_message_length |-> ml, max_message_lines |-> mn, max_line_length |-> ll]] :
        m \in SeqsUpTo(MessageChars, MaxMsgLen), ml \in {1, DEFAULT_MAX_MESSAGE_LENGTH},
        mn \in {1, 2}, ll \in {1, DEFAULT_MAX_LINE_LENGTH}}
InitPrepare == InitRest(DefaultArgs) /\ \E x \in PrepareInputs : last = Given(x)
Prepare == Apply("prepare", prepare_message(last.arg.message, last.arg.caps))
SpecPrepare == InitPrepare /\ [][Prepare]_vars

LineCount(text) == Len(SplitNL(text, << >>))
\* the message with its line endings normalized
Normalized == normalize_newlines(last.arg.message)
\* what max_message_length leaves of it (the marker of the cut extends the
\* last line left)
Kept == Prefix(Normalized, last.arg.caps.max_message_length)

\* C16 as stated: the prepared message has the line count of the input
\* when that is within max_message_lines, and max_message_lines + 1 lines
\* otherwise.
C16_LineCountOfInput ==
    last.op = "prepare" =>
        LineCount(last.out) =
            (IF LineCount(Normalized) <= last.arg.caps.max_message_lines
             THEN LineCount(Normalized) ELSE last.arg.caps.max_message_lines + 1)

\* C16: the prepared message has the line count of the normalized input
\* cut to max_message_length characters when that count is within
\* max_message_lines, and max_message_lines + 1 lines otherwise, the last of
\* them the dropped-count marker; for a message within max_message_length
\* the cut text is the input.
C16_LineCountOfKeptText ==
    last.op = "prepare" =>
        LET cap == last.arg.caps.max_message_lines
            lines == SplitNL(last.out, << >>)
        IN /\ Len(Normalized) <= last.arg.caps.max_message_length => Kept = Normalized
           /\ IF LineCount(Kept) <= cap
              THEN Len(lines) = LineCount(Kept)
              ELSE /\ Len(lines) = cap + 1
                   /\ lines[cap + 1] =
                         ClipLine(DroppedMarker(LineCount(Kept) - cap),
                                  last.arg.caps.max_line_length)
\* a message of three lines cut to its first character, under a cap of two
\* lines: two lines are left and none is dropped
C16_Witness ==
    /\ last.op = "prepare"
    /\ last.arg.message = <<"NL", "NL", "a">>
    /\ last.arg.caps.max_message_length = 1
    /\ last.arg.caps.max_message_lines = 2
    /\ LineCount(last.out) = 2

\* ------------------------------------------------------------ registration
\* add_log_file and add_html_log_file with valid and invalid arguments, on
\* targets that are safe, linked or unwritable, by a program whose stderr is
\* open or was closed when it started.
InitRegister ==
    \E cl \in SUBSET {"stderr"} :
        /\ InitIn(DefaultArgs, {}, cl)
        /\ last = Last("init", DefaultArgs.logger_level, "", None,
                       [thr |-> ThrottleInit, fs |-> << >>, facs |-> << >>, tr |-> << >>,
                        exc |-> "none", drop |-> FALSE, wexc |-> "none", gated |-> FALSE,
                        selected |-> << >>])
FileRegistrations == {"app", "console", "bad-handle"} \X BOOLEAN \X {0 - 1, 0, 1}
HtmlRegistrations ==
    {1, DEFAULT_MAX_HTML_TITLE_LENGTH + 1} \X {"dark", "neon"} \X {0, 10} \X {0 - 1, 0}
NextRegister ==
    \/ \E r \in FileRegistrations : AddLogFile(r[1], r[2], r[3])
    \/ \E r \in HtmlRegistrations : AddHtmlLogFile("web", r[1], r[2], r[3], FALSE, r[4])
    \/ \E p \in Paths : EnvReplace(p, 0, Symlink)
    \/ \E p \in Paths : EnvIoError(p)
    \/ EnvDirSymlink
SpecRegister == InitRegister /\ [][NextRegister]_vars

\* the console diagnostics of a call
Diagnostics(l) == {i \in 1..Len(l.tr) : l.tr[i].h = HANDLE_CONSOLE /\ l.tr[i].what = "init"}
\* what the claim gives for a registration of h at p: bad when an argument
\* is invalid, failing when the construction meets an unexpected error
RegistrationOutcome(h, p, kind, bad, rot, keep, failing) ==
    IF bad THEN last'.exc = "ValueError" /\ facilities' = facilities
    ELSE IF UnsafeTarget(p) \/ (rot /\ UnsafeChain(p, keep))
    THEN last'.exc = "UnsafeLogTargetError" /\ facilities' = facilities
    ELSE IF failing
    THEN /\ last'.exc = "none"
         /\ Cardinality(Diagnostics(last')) = 1
         /\ facilities' = facilities
    ELSE /\ last'.exc = "none"
         /\ Diagnostics(last') = {}
         /\ Registered(facilities', h)
         /\ LET fac == facilities'[FacIndex(facilities', h)]
            IN fac.kind = kind /\ fac.path = p /\ fac.keep = keep

\* C17 as stated: a registration raises a validation error for an invalid
\* handle, the reserved handle, a negative retention count (and, for HTML, an
\* invalid theme, refresh interval or title); raises the unsafe-target error
\* for an unsafe path; returns false after one console diagnostic for any
\* other construction failure; leaves the map as it was in all these cases;
\* and otherwise maps the handle to the new facility.
C17_RegistrationOutcomes ==
    [][/\ \A r \in FileRegistrations :
             AddLogFile(r[1], r[2], r[3]) =>
                RegistrationOutcome(r[1], PathOf(r[1]), "file",
                                    ~validate_facility_params(r[1], r[3]) \/ ~validate_handle(r[1]),
                                    r[2], r[3], PathOf(r[1]) \in io_error)
       /\ \A r \in HtmlRegistrations :
             AddHtmlLogFile("web", r[1], r[2], r[3], FALSE, r[4]) =>
                RegistrationOutcome("web", PathOf("web"), "html",
                                    ~validate_facility_params("web", r[4])
                                       \/ ~ValidHtmlArgs(r[1], r[2], r[3]),
                                    FALSE, r[4], PathOf("web") \in io_error)]_vars

\* ------------------------------------------------- throttle diagnostics
\* the throttle checks of a call
Checks(l) == Idx(l.tr, "admit") \cup Idx(l.tr, "drop")
\* the open window has expired: the next throttle check closes it
WindowExpired ==
    thr.window_started_at > 0 /\ now - thr.window_started_at >= cfg.throttle_window_seconds

\* C18: the throttle check that closes a window in which writes were
\* dropped emits exactly one diagnostic console line, ahead of the check's
\* own outcome; a check that closes a window without drops, or closes none,
\* emits no such line; and a dropped write is followed by no output of its
\* own and raises nothing.
C18_OneDiagnosticPerWindow ==
    [][(calls' = calls + 1 /\ last'.op = "log") =>
          LET tr == last'.tr IN
          /\ (Checks(last') # {} /\ WindowExpired /\ thr.dropped_in_current_window > 0) =>
                /\ Cardinality(Idx(tr, "throttle")) = 1
                /\ tr[1] = Ev(HANDLE_CONSOLE, "throttle", "none")
                /\ thr'.window_started_at = now
          /\ ~(WindowExpired /\ thr.dropped_in_current_window > 0) => Idx(tr, "throttle") = {}
          /\ \A i \in Idx(tr, "drop") :
                /\ last'.exc = "none"
                /\ i < Len(tr) => tr[i + 1].what \in {"admit", "drop"}]_vars
\* a call that closed a window with two drops and opened the next one
C18_Witness ==
    /\ last.op = "log"
    /\ Idx(last.tr, "throttle") # {}
    /\ thr.throttle_dropped_total = 2
    /\ thr.dropped_in_current_window = 0
    /\ win.n = 1

\* ---------------------------------------------- the throttle's window
\* the window that is open when a call starts stays open for the call
WindowContinues == thr.window_started_at > 0 /\ ~WindowExpired
\* writes admitted in the current window before check i of the call l ran:
\* to any handle, and to the handle h
AdmittedBefore(l, i) ==
    (IF WindowContinues THEN win.admitted ELSE 0)
    + Cardinality({j \in Idx(l.tr, "admit") : j < i})
AdmittedToBefore(l, i, h) ==
    (IF WindowContinues THEN Get(win.admitted_by, h) ELSE 0)
    + Cardinality({j \in Idx(l.tr, "admit") : j < i /\ l.tr[j].h = h})

\* C19 as stated: a write addressed to h is dropped only if
\* max_writes_per_second writes addressed to h itself were admitted in the
\* current window.
C19_WindowPerHandle ==
    [][(calls' = calls + 1 /\ last'.op = "log") =>
          \A i \in Idx(last'.tr, "drop") :
              AdmittedToBefore(last', i, last'.tr[i].h) >= cfg.max_writes_per_second]_vars

\* C19: the throttle window bounds the admitted writes of all handles
\* together: a write addressed to h is dropped exactly when
\* max_writes_per_second writes, to whatever handles, were already admitted
\* in the current window, so traffic to one handle uses up the window of the
\* others; the drop is counted for h.
C19_WindowShared ==
    [][(calls' = calls + 1 /\ last'.op = "log") =>
          \A i \in Checks(last') :
              /\ last'.tr[i].what = "drop"
                    <=> AdmittedBefore(last', i) >= cfg.max_writes_per_second
              /\ last'.tr[i].what = "drop" =>
                    Get(thr'.throttle_dropped_by_handle, last'.tr[i].h) > 0]_vars
\* a write to "app" dropped in a window whose one admitted write went to
\* the console
C19_Witness ==
    /\ last.op = "log"
    /\ \E i \in Idx(last.tr, "drop") : last.tr[i].h = "app"
    /\ win.admitted = 1
    /\ Get(win.admitted_by, HANDLE_CONSOLE) = 1
    /\ Get(win.admitted_by, "app") = 0

\* ------------------------------------------- order and size of the files
\* One thread logs messages that differ from call to call, to a file that
\* holds two lines before it has to rotate and to an HTML document.
OrderArgs ==
    [Args(LEVEL_INFO, DEFAULT_MAX_WRITES_PER_SECOND, 1, 2)
        EXCEPT !.plain_log_max_file_size_bytes = SmallFileBytes]
InitOrder == InitWith(OrderArgs)
\* the message of the k-th call
CallChars == <<"a", "b", "c", "x", "y", "0", "1", "2">>
CallNo(ch) == CHOOSE k \in 1..Len(CallChars) : CallChars[k] = ch
OrderCalls ==
    {<<LEVEL_INFO, None>>, <<LEVEL_INFO, List(<<"app">>)>>, <<LEVEL_DEBUG, List(<<"app">>)>>,
     <<LEVEL_INFO, List(<<"web", "app">>)>>}
NextOrder ==
    \/ \E c \in OrderCalls :
          /\ calls < MaxOrderCalls
          /\ LogCall(<<CallChars[calls + 1]>>, c[1], NATURE_INFO, c[2], NEVER)
    \/ \E rot \in BOOLEAN, keep \in 0..MaxKeep : AddLogFile("app", rot, keep)
    \/ AddHtmlLogFile("web", 1, "dark", 10, FALSE, 1)
SpecOrder == InitOrder /\ [][NextOrder]_vars

\* the call that wrote an entry of a file
CallOf(e) == CallNo(IF e.t = "line" THEN e.text[1] ELSE TextChars(e.ev)[1])
\* the entries of the chain of p, the oldest member first
RECURSIVE ChainEntries(_, _)
ChainEntries(p, slot) ==
    LET here == SelectSeq(fs[p][slot].content, LAMBDA e : e.t \in {"line", "row"})
    IN IF slot = MaxKeep THEN here ELSE ChainEntries(p, slot + 1) \o here

\* C21: the entries of a facility's file are in the order of the calls
\* that wrote them, those of an older member of the rotation chain before
\* those of a newer one.
C21_EntriesInCallOrder ==
    \A p \in Paths :
        LET es == ChainEntries(p, 0)
        IN \A i, j \in 1..Len(es) : i < j => CallOf(es[i]) < CallOf(es[j])
\* four calls written to "app": the first two rotated into F.1
C21_Witness ==
    /\ Len(fs[PathOf("app")][1].content) = 2
    /\ Len(fs[PathOf("app")][0].content) = 2
    /\ CallOf(fs[PathOf("app")][1].content[1]) = 1
    /\ CallOf(fs[PathOf("app")][0].content[2]) = 4

\* C28: a write to a plain file whose size plus the line's exceeds
\* max_file_size_bytes rotates first: the line is the only content of F
\* and, for keep > 0, F.1 holds what F held; a write within the cap leaves
\* the chain alone and adds the line to the end of F.
C28_RotateBeforeAppend ==
    [][\A c \in OrderCalls :
          (/\ calls' = calls + 1
           /\ c[2] = List(<<"app">>)
           /\ Registered(facilities, "app")
           /\ LogCall(<<CallChars[calls + 1]>>, c[1], NATURE_INFO, c[2], NEVER)
           /\ WriteRaised(last', "app", "none")) =>
             LET fac == facilities[FacIndex(facilities, "app")]
                 old == fs[fac.path]
                 new == fs'[fac.path]
                 line == FileLine(LogRecord(prepare_message(<<CallChars[calls + 1]>>, cfg),
                                            c[1], NATURE_INFO, now))
             IN IF StSize(old[0]) + EntryBytes(line) > fac.max_bytes
                THEN /\ new[0] = Regular(<<line>>)
                     /\ fac.keep > 0 => new[1] = old[0]
                     /\ fac.keep = 0 => \A i \in Slots \ {0} : new[i] = old[i]
                ELSE /\ new[0] = Regular(old[0].content \o <<line>>)
                     /\ \A i \in Slots \ {0} : new[i] = old[i]]_vars
\* the third line rotated a full file of retention 1
C28_Witness ==
    /\ WriteRaised(last, "app", "none")
    /\ Registered(facilities, "app")
    /\ facilities[FacIndex(facilities, "app")].keep = 1
    /\ Len(fs[PathOf("app")][0].content) = 1
    /\ Len(fs[PathOf("app")][1].content) = 2

\* ------------------------------------------------------ handles = None
\* the handles of the events of a trace that are of the kinds given, in order
HandlesOf(tr, kinds) ==
    LET evs == SelectSeq(tr, LAMBDA e : e.what \in kinds)
    IN [i \in 1..Len(evs) |-> evs[i].h]
\* s is t without some of its elements
RECURSIVE IsSubsequence(_, _)
IsSubsequence(s, t) ==
    IF s = << >> THEN TRUE
    ELSE IF t = << >> THEN FALSE
    ELSE IF Head(s) = Head(t) THEN IsSubsequence(Tail(s), Tail(t))
    ELSE IsSubsequence(s, Tail(t))

\* C22: a log call with handles = None that passes the level gate selects
\* the registered handles in the order of their registration, the console
\* first and each once, makes its throttle checks in that order and writes
\* the record to the admitted ones in that order.
C22_NoneSelectsAllInOrder ==
    [][(/\ calls' = calls + 1
        /\ last'.op = "log"
        /\ last'.handles = None
        /\ last'.exc = "none"
        /\ ~last'.gated) =>
          /\ last'.selected = Keys(facilities)
          /\ last'.selected[1] = HANDLE_CONSOLE
          /\ \A i, j \in 1..Len(last'.selected) :
                i # j => last'.selected[i] # last'.selected[j]
          /\ HandlesOf(last'.tr, {"admit", "drop"}) = last'.selected
          /\ IsSubsequence(HandlesOf(last'.tr, {"record"}), last'.selected)
          /\ HandlesOf(last'.tr, {"record"}) = HandlesOf(last'.tr, {"admit"})]_vars
\* "web" registered before "app": the record went to the console, to "web"
\* and to "app"
C22_Witness ==
    /\ last.op = "log"
    /\ last.handles = None
    /\ last.selected = <<HANDLE_CONSOLE, "web", "app">>
    /\ HandlesOf(last.tr, {"record"}) = <<HANDLE_CONSOLE, "web", "app">>

\* ------------------------------------------------- the map of facilities
\* Handles are registered again, as a file or as an HTML facility, the
\* router is constructed again, and records are logged in between.
Reregister(log_handle, kind, rotations_to_keep) ==
    /\ LET m == IF kind = "html"
                THEN add_html_log_file(log_handle, PathOf(log_handle), 1, "dark", 10, FALSE,
                                       rotations_to_keep)
                ELSE add_log_file(log_handle, PathOf(log_handle), FALSE, rotations_to_keep) IN
       /\ fs' = m.fs
       /\ facilities' = m.facs
       /\ last' = [Last("add_" \o kind, "", "", List(<<log_handle>>), m)
                      EXCEPT !.level = kind, !.min_level = rotations_to_keep]
    /\ UNCHANGED <<calls, now, logger_level, cfg, thr, win, EnvVars, ThreadVars>>
MaxMapCalls == 1
InitMap == InitWith(Args(LEVEL_INFO, DEFAULT_MAX_WRITES_PER_SECOND, 1, 2))
NextMap ==
    \/ \E h \in {"app", "web", HANDLE_CONSOLE}, kind \in {"file", "html"} :
          Reregister(h, kind, 1)
    \/ \E a \in RouterArgs : Construct(a)
    \/ SetLevel("debug")
    \/ calls < MaxMapCalls /\ LogCall(<<"a">>, LEVEL_INFO, NATURE_INFO, None, NEVER)
SpecMap == InitMap /\ [][NextMap]_vars

\* one facility per handle, the console's among them
OneFacilityPerHandle(facs) ==
    /\ \A i, j \in 1..Len(facs) : i # j => facs[i].handle # facs[j].handle
    /\ Registered(facs, HANDLE_CONSOLE)
    /\ facs[FacIndex(facs, HANDLE_CONSOLE)].kind = "console"

\* C23: the map holds one facility per handle and the console's at every
\* moment; no step removes or reorders a handle; a registration that
\* returns true for a registered handle puts the new facility in the place
\* of the old one; and a registration of "console" raises a validation
\* error and leaves the map as it was.
C23_OneFacilityPerHandle ==
    /\ []OneFacilityPerHandle(facilities)
    /\ [][/\ IsSubsequence(Keys(facilities), Keys(facilities'))
          /\ SubSeq(Keys(facilities'), 1, Len(facilities)) = Keys(facilities)
          /\ \A h \in {"app", "web", HANDLE_CONSOLE}, kind \in {"file", "html"} :
                Reregister(h, kind, 1) =>
                   IF h = HANDLE_CONSOLE
                   THEN last'.exc = "ValueError" /\ facilities' = facilities
                   ELSE /\ last'.exc = "none"
                        /\ Registered(facilities, h) => Len(facilities') = Len(facilities)
                        /\ facilities'[FacIndex(facilities', h)].kind = kind
                        /\ facilities'[FacIndex(facilities', h)].keep = 1]_vars
\* "app", a file facility that wrote a line, registered again as an HTML
\* facility of retention 1
C23_Witness ==
    /\ Len(facilities) = 2
    /\ facilities[2].handle = "app"
    /\ facilities[2].kind = "html"
    /\ facilities[2].keep = 1
    /\ Len(fs[PathOf("app")][0].content) > 0
    /\ fs[PathOf("app")][0].content[1].t = "line"

\* ------------------------------------------------------ console output
\* What ConsoleFacility.write prints, as a sequence of characters and ANSI
\* sequences (each sequence one element).
ANSI_RESET == "ESC[0m"
ANSI_WHITE == "ESC[97m"
ANSI_LIGHT_GRAY == "ESC[37m"
ANSI_GREEN == "ESC[92m"
ANSI_YELLOW == "ESC[93m"
ANSI_CYAN == "ESC[96m"
ANSI_PINK == "ESC[95m"
ANSI_RED == "ESC[91m"
ANSI_TIME_CONTENT == "ESC[94m"
ANSI == {ANSI_RESET, ANSI_WHITE, ANSI_LIGHT_GRAY, ANSI_GREEN, ANSI_YELLOW, ANSI_CYAN,
         ANSI_PINK, ANSI_RED, ANSI_TIME_CONTENT}

base_color(rec) == IF rec.level = LEVEL_DEBUG THEN ANSI_LIGHT_GRAY ELSE ANSI_WHITE

badge_color(rec) ==
    IF rec.nature = NATURE_ERROR THEN ANSI_RED
    ELSE IF rec.level = LEVEL_DEBUG THEN ANSI_LIGHT_GRAY
    ELSE ANSI_GREEN

color_for_char(index, ch, rec, quote_spans, quote_marks, lhs_spans) ==
    LET token == token_class(index, ch, quote_spans, quote_marks, lhs_spans)
    IN CASE token = "quote-mark" -> ANSI_GREEN
         [] token = "quote-content" -> ANSI_YELLOW
         [] token = "lhs" -> ANSI_PINK
         [] token = "number" -> ANSI_CYAN
         [] token = "punct" -> ANSI_GREEN
         [] OTHER -> base_color(rec)

\* ConsoleFacility._badge_icon: which icon
console_badge_icon(rec) ==
    IF rec.nature = NATURE_ERROR THEN "error"
    ELSE IF rec.level = LEVEL_DEBUG \/ rec.nature = NATURE_WARNING THEN "debug"
    ELSE "info"

\* a coloring that gives up where the deadline finds it
colorize_line_truncating(line, rec, budget) ==
    <<base_color(rec)>> \o Prefix(line, Max(budget, 0))

\* ConsoleFacility._colorize_line_with_budget; budget is the number of
\* deadline checks that pass before the deadline expires
colorize_line_with_budget(line, rec, budget) ==
    LET q == quoted_content_spans(line)
        m == quote_mark_positions(line)
        l == lhs_equals_spans(line)
        scans == q.checks + m.checks + l.checks
        color(i) == color_for_char(i, line[i], rec, q.spans, m.positions, l.spans)
        piece(i) == IF i = 1 \/ color(i) # color(i - 1)
                    THEN <<color(i), line[i]>> ELSE <<line[i]>>
    IN IF budget = NEVER \/ budget >= scans + Len(line)
       THEN Flat([i \in 1..Len(line) |-> piece(i)]) \o <<ANSI_RESET>>
       ELSE <<base_color(rec)>> \o line \o <<ANSI_RESET>>

\* the text ConsoleFacility.write prints for a record
ConsoleFacility_text(fac, rec, budget) ==
    LET lines == split_console_lines(normalize_for_terminal(rec.message))
        clip(raw) == IF Len(raw) <= fac.max_line_length THEN raw
                     ELSE Prefix(raw, fac.max_line_length) \o Rep("#h", HtmlLineClipMarkerLen)
        icon == console_badge_icon(rec)
        shown(i) == IF fac.color THEN colorize_line_with_budget(clip(lines[i]), rec, budget)
                    ELSE clip(lines[i])
        head == IF fac.color
                THEN <<ANSI_GREEN, "[", ANSI_TIME_CONTENT, "TIME", ANSI_GREEN, "]", " ",
                       badge_color(rec), icon, ANSI_RESET, " ">>
                ELSE <<"[", "TIME", "]", " ", icon, " ">>
    IN Flat([i \in 1..Len(lines) |->
                (IF i = 1 THEN head ELSE <<"NL", "TAB">>) \o shown(i)])

\* ------------------------------------------------------- normalization
\* The two normalizations, the HTML rendering and the console printing
\* applied to every text of up to MaxMsgLen characters over controls, bidi
\* controls, line endings, tab and a letter.
NormChars == {"a", "NUL", "ESC", "C1", "RLO", "CR", "NL", "TAB"}
InitNormalize ==
    InitRest(DefaultArgs) /\ \E t \in SeqsUpTo(NormChars, MaxMsgLen) : last = Given(t)
PlainConsole == Fac(HANDLE_CONSOLE, "console", "", 0, 0, DEFAULT_MAX_LINE_LENGTH, 15, FALSE)
NextNormalize ==
    \/ Apply("normalize_for_html", normalize_for_html(last.arg))
    \/ Apply("normalize_for_terminal", normalize_for_terminal(last.arg))
    \/ Apply("html", TextChars(render_html_message(last.arg, DEFAULT_MAX_LINE_LENGTH, NEVER)))
    \/ \E color \in BOOLEAN :
          Apply("console",
                ConsoleFacility_text([PlainConsole EXCEPT !.color = color],
                                     LogRecord(last.arg, LEVEL_INFO, NATURE_INFO, 0), NEVER))
SpecNormalize == InitNormalize /\ [][NextNormalize]_vars

\* each character of the text in its place: U+FFFD for one of the replaced
\* set other than newline and tab, itself otherwise
ReplacedOneForOne(text, out, replaced) ==
    /\ Len(out) = Len(text)
    /\ \A i \in 1..Len(text) :
          out[i] = (IF text[i] \in replaced \ {"NL", "TAB"} THEN "FFFD" ELSE text[i])

\* C24 as stated: HTML-safe normalization replaces each control other than
\* newline and tab and each bidi control of the input one-for-one with
\* U+FFFD and leaves every other character unchanged, terminal-safe
\* normalization does so for the controls; and no NUL, ESC or bidi override
\* of the message is in the HTML text or in the console output.
C24_InputReplacedOneForOne ==
    /\ last.op = "normalize_for_html" =>
          ReplacedOneForOne(last.arg, last.out, C0_C1_CONTROLS \cup BIDI_CONTROLS)
    /\ last.op = "normalize_for_terminal" =>
          ReplacedOneForOne(last.arg, last.out, C0_C1_CONTROLS)
    /\ last.op \in {"html", "console"} =>
          \A i \in 1..Len(last.out) : last.out[i] \notin {"NUL", "ESC", "RLO"}

\* C24: after the line endings CR LF and CR are converted to LF, HTML-safe
\* normalization replaces each remaining control other than newline and tab
\* and each bidi control one-for-one with U+FFFD and leaves every other
\* character unchanged, terminal-safe normalization does so for the
\* controls only; so no NUL, ESC, other control or bidi control of the
\* message is in the text of the HTML row, and no NUL, ESC or other control
\* of the message is in the console output, where a bidi control stays.
C24_ReplacedOneForOne ==
    /\ last.op = "normalize_for_html" =>
          ReplacedOneForOne(normalize_newlines(last.arg), last.out,
                            C0_C1_CONTROLS \cup BIDI_CONTROLS)
    /\ last.op = "normalize_for_terminal" =>
          ReplacedOneForOne(normalize_newlines(last.arg), last.out, C0_C1_CONTROLS)
    /\ last.op = "html" =>
          \A i \in 1..Len(last.out) : last.out[i] \notin C0_C1_CONTROLS \cup BIDI_CONTROLS
    /\ last.op = "console" =>
          /\ \A i \in 1..Len(last.out) : last.out[i] \notin C0_C1_CONTROLS
          /\ \A i \in 1..Len(last.arg) :
                last.arg[i] = "RLO" => \E j \in 1..Len(last.out) : last.out[j] = "RLO"
\* a NUL, an ESC and a bidi override made three U+FFFD for the document
C24_Witness ==
    /\ last.op = "normalize_for_html"
    /\ last.arg = <<"NUL", "ESC", "RLO">>
    /\ last.out = <<"FFFD", "FFFD", "FFFD">>

\* ------------------------------------------------ colorization deadline
\* One line rendered for the HTML document and colored for the console,
\* with a deadline that expires after 0..MaxBudget checks or never.
MaxBudget == 11
LineChars == {"a", "Q", "=", "1"}
DeadlineInputs ==
    {[line |-> l, budget |-> b, level |-> lv] :
        l \in SeqsUpTo(LineChars, MaxMsgLen), b \in 0..MaxBudget \cup {NEVER},
        lv \in {LEVEL_INFO, LEVEL_DEBUG}}
InitDeadline == InitRest(DefaultArgs) /\ \E x \in DeadlineInputs : last = Given(x)
NextDeadline ==
    \/ Apply("html", RenderHtmlLine(last.arg.line, last.arg.budget))
    \/ Apply("console",
             colorize_line_with_budget(last.arg.line,
                                       LogRecord(last.arg.line, last.arg.level, NATURE_INFO, 0),
                                       last.arg.budget))
SpecDeadline == InitDeadline /\ [][NextDeadline]_vars

\* the deadline checks of the three scans of a line
ScanChecks(line) ==
    quoted_content_spans(line).checks + quote_mark_positions(line).checks
    + lhs_equals_spans(line).checks
\* the deadline expires before the line is rendered
Expires(x) == x.budget # NEVER /\ x.budget < ScanChecks(x.line) + Len(x.line)
\* it expires in the loop over the characters, after the first of them
ExpiresInLoop(x) == Expires(x) /\ x.budget > ScanChecks(x.line)

\* C25: when the deadline expires while a line is rendered for the HTML
\* document, in a scan or in the loop over the characters, the rendered
\* line is the escaped line alone, without a span: each character once.
C25_SingleUncoloredFallback ==
    (last.op = "html" /\ Expires(last.arg)) =>
        last.out = Text(escape_html_strict(last.arg.line))

\* C26: when the deadline expires while a console line is colored, in a
\* scan or in the loop over the characters, the result is the base color,
\* the full line and the reset sequence; and every colored line, fallen
\* back or not, ends with the reset sequence and holds each character of
\* the line once, in order.
C26_ConsoleFallsBackToBaseColor ==
    last.op = "console" =>
        /\ Expires(last.arg) =>
              last.out = <<IF last.arg.level = LEVEL_DEBUG THEN ANSI_LIGHT_GRAY ELSE ANSI_WHITE>>
                         \o last.arg.line \o <<ANSI_RESET>>
        /\ last.out # << >>
        /\ last.out[Len(last.out)] = ANSI_RESET
        /\ SelectSeq(last.out, LAMBDA e : e \notin ANSI) = last.arg.line
\* the deadline expired after the first character of a1 was colored
C26_Witness ==
    /\ last.op = "console"
    /\ last.arg.line = <<"a", "1">>
    /\ last.arg.level = LEVEL_INFO
    /\ ExpiresInLoop(last.arg)
    /\ last.out = <<ANSI_WHITE, "a", "1", ANSI_RESET>>

\* ------------------------------------------------ the window's reset
\* the admissions and the drops of a call
Admits(l) == Cardinality(Idx(l.tr, "admit"))
Drops(l) == Cardinality(Idx(l.tr, "drop"))
First(S) == CHOOSE i \in S : \A j \in S : i <= j

\* C27: a log call whose first throttle check finds the window expired
\* (its length or more has passed since it started) admits that write,
\* restarts the window at that moment and counts from zero: after the call
\* the window's writes and drops are those of the call alone.  A call whose
\* checks find the window not yet expired leaves the start of the window
\* and adds its admissions and drops to the window's counters.  No step of
\* any operation lowers the cumulative total of drops or the count of a
\* handle.
C27_ResetAtExpiry ==
    [][/\ (calls' = calls + 1 /\ last'.op = "log" /\ Checks(last') # {}) =>
             /\ WindowExpired =>
                   /\ last'.tr[First(Checks(last'))].what = "admit"
                   /\ thr'.window_started_at = now
                   /\ thr'.writes_in_current_window = Admits(last')
                   /\ thr'.dropped_in_current_window = Drops(last')
             /\ WindowContinues =>
                   /\ thr'.window_started_at = thr.window_started_at
                   /\ thr'.writes_in_current_window =
                         thr.writes_in_current_window + Admits(last')
                   /\ thr'.dropped_in_current_window =
                         thr.dropped_in_current_window + Drops(last')
       /\ thr'.throttle_dropped_total >= thr.throttle_dropped_total
       /\ \A h \in DOMAIN thr.throttle_dropped_by_handle :
             /\ h \in DOMAIN thr'.throttle_dropped_by_handle
             /\ thr'.throttle_dropped_by_handle[h] >= thr.throttle_dropped_by_handle[h]]_vars
\* a window with a drop was closed exactly at its length by a call that was
\* admitted once and dropped once; the cumulative total kept the old drop
C27_Witness ==
    /\ last.op = "log"
    /\ Idx(last.tr, "throttle") # {}
    /\ thr.window_started_at = now
    /\ now - cfg.throttle_window_seconds > 0
    /\ thr.writes_in_current_window = 1
    /\ thr.dropped_in_current_window = 1
    /\ thr.throttle_dropped_total >= 2

\* ------------------------------------------------ the guard's verdicts
\* The guard applied to each member of a chain whose members are missing,
\* regular files, links (dangling or to a file), directories, or entries
\* that os.lstat cannot inspect (OSError other than FileNotFoundError), in a
\* directory that is or is not reached through a link.
Directory == [kind |-> "other", content |-> << >>]
Uninspectable == [kind |-> "denied", content |-> << >>]
GuardNodes == {Missing, Regular(<< >>), Regular(RealFile), Symlink, LinkTo(RealFile),
               Directory, Uninspectable}
InitGuard ==
    /\ now = 1
    /\ logger_level = validate_level(DefaultArgs.logger_level)
    /\ cfg = CfgOf(DefaultArgs)
    /\ thr = ThrottleInit
    /\ facilities = <<ConsoleFacility(DefaultArgs, CfgOf(DefaultArgs))>>
    /\ \E n0 \in GuardNodes, n1 \in GuardNodes :
          fs = [p \in Paths |-> [i \in Slots |-> IF i = 0 THEN n0 ELSE IF i = 1 THEN n1
                                                   ELSE Missing]]
    /\ dir_symlink \in BOOLEAN
    /\ io_error = {}
    /\ closed = {}
    /\ tampered = "no"
    /\ calls = 0
    /\ env_steps = 0
    /\ win = WinInit
    /\ lock_owner = 0
    /\ pc = [t \in ThreadIds |-> "idle"]
    /\ tl = [t \in ThreadIds |-> NoLocals]
    /\ \E slot \in Slots : last = Given(slot)
Guard == Apply("guard", assert_safe_log_target(fs, PathOf("app"), last.arg))
SpecGuard == InitGuard /\ [][Guard]_vars

\* the entry the guard was asked about
Inspected == fs[PathOf("app")][last.arg]

\* C30: the guard raises exactly when the directory is reached through a
\* symbolic link, or the target is a symbolic link (whatever it points to),
\* or the target exists and is not a regular file, or the target cannot be
\* inspected for a reason other than its absence; so a missing target and a
\* regular file in a directory without a link are accepted.
C30_GuardVerdict ==
    last.op = "guard" =>
        (~last.out <=> \/ dir_symlink
                       \/ IsLink(Inspected)
                       \/ Inspected.kind = "other"
                       \/ Inspected.kind = "denied")
\* a link to a regular file, in a directory without a link, was refused
C30_Witness ==
    /\ last.op = "guard"
    /\ ~dir_symlink
    /\ Inspected = LinkTo(RealFile)
    /\ last.out = FALSE

\* --------------------------------------- the guard before every mutation
\* The file operations once more, step by step as the code takes them: the
\* files, the exception that ended the operation, and the guard checks and
\* the mutations (write_text, unlink, replace, touch, append, mkdir) in the
\* order made, each with the members of the chain it touches.
Op(what, slots) == [what |-> what, slots |-> slots]
St(fsx) == [fs |-> fsx, exc |-> "none", ops |-> << >>]
\* assert_safe_log_target(F.slot)
Guarded(st, p, slot) ==
    IF st.exc # "none" THEN st
    ELSE [st EXCEPT !.ops = Append(@, Op("check", {slot})),
                    !.exc = IF assert_safe_log_target(st.fs, p, slot) THEN "none"
                            ELSE "UnsafeLogTargetError"]
\* a mutation and the files and the exception it leaves
Did(st, what, slots, r) ==
    IF st.exc # "none" THEN st
    ELSE [fs |-> r.fs, exc |-> r.exc, ops |-> Append(st.ops, Op(what, slots))]
Raised(st, exc) == IF st.exc # "none" THEN st ELSE [st EXCEPT !.exc = exc]

RECURSIVE ShiftSteps(_, _, _)
ShiftSteps(st, p, idx) ==
    IF idx < 1 THEN st
    ELSE LET g == Guarded(Guarded(st, p, idx), p, idx + 1)
             m == IF Exists(g.fs[p][idx])
                  THEN Did(g, "replace", {idx, idx + 1},
                           R([g.fs EXCEPT ![p][idx + 1] = g.fs[p][idx], ![p][idx] = Missing],
                             "none"))
                  ELSE g
         IN ShiftSteps(m, p, idx - 1)

\* a rotation that deletes the oldest copy without a look at it
rotate_files_steps_unchecked_oldest(st, p, keep) ==
    LET s1 == Guarded(st, p, 0) IN
    IF keep <= 0 THEN Did(s1, "write_text", {0}, WriteText(s1.fs, p, << >>))
    ELSE LET s2 == s1
             s3 == IF Exists(s2.fs[p][keep])
                   THEN Did(s2, "unlink", {keep}, R([s2.fs EXCEPT ![p][keep] = Missing], "none"))
                   ELSE s2
             s4 == ShiftSteps(s3, p, keep - 1)
             g == Guarded(s4, p, 1)
             s5 == IF Exists(s4.fs[p][0])
                   THEN Did(g, "replace", {0, 1},
                            R([g.fs EXCEPT ![p][1] = g.fs[p][0], ![p][0] = Missing], "none"))
                   ELSE s4
         IN Did(s5, "write_text", {0}, WriteText(s5.fs, p, << >>))
rotate_files_steps(st, p, keep) ==
    LET s1 == Guarded(st, p, 0) IN
    IF keep <= 0 THEN Did(s1, "write_text", {0}, WriteText(s1.fs, p, << >>))
    ELSE LET s2 == Guarded(s1, p, keep)
             s3 == IF Exists(s2.fs[p][keep])
                   THEN Did(s2, "unlink", {keep}, R([s2.fs EXCEPT ![p][keep] = Missing], "none"))
                   ELSE s2
             s4 == ShiftSteps(s3, p, keep - 1)
             g == Guarded(s4, p, 1)
             s5 == IF Exists(s4.fs[p][0])
                   THEN Did(g, "replace", {0, 1},
                            R([g.fs EXCEPT ![p][1] = g.fs[p][0], ![p][0] = Missing], "none"))
                   ELSE s4
         IN Did(s5, "write_text", {0}, WriteText(s5.fs, p, << >>))

FileFacility_create_steps(fsx, handle, p, rotate_on_start, keep) ==
    IF ~validate_handle(handle) THEN Raised(St(fsx), "ValueError")
    ELSE LET s0 == Did(St(fsx), "mkdir", {}, R(fsx, "none"))
             s1 == Guarded(s0, p, 0)
             s2 == IF rotate_on_start THEN rotate_files_steps(s1, p, keep) ELSE s1
             s3 == IF Exists(s2.fs[p][0]) THEN s2
                   ELSE Did(s2, "touch", {0}, WriteText(s2.fs, p, << >>))
             s4 == Guarded(s3, p, 0)
         IN Did(s4, "append", {0}, R(s4.fs, IF p \in io_error THEN "OSError" ELSE "none"))

FileFacility_write_steps(fsx, fac, rec) ==
    LET p == fac.path
        line == FileLine(rec)
        s1 == Guarded(St(fsx), p, 0)
        current_size == IF Exists(fsx[p][0]) THEN StSize(fsx[p][0]) ELSE 0
        s2 == IF current_size + EntryBytes(line) > fac.max_bytes
              THEN rotate_files_steps(s1, p, fac.keep) ELSE s1
    IN Did(s2, "append", {0}, AppendEntry(s2.fs, p, <<line>>))

ensure_document_steps(st, p) ==
    IF st.exc # "none" \/ (Exists(st.fs[p][0]) /\ StSize(st.fs[p][0]) > 0) THEN st
    ELSE LET g == Guarded(st, p, 0) IN Did(g, "write_text", {0}, WriteText(g.fs, p, <<Tpl>>))

HtmlFileFacility_create_steps(fsx, handle, p, rotate_on_start, keep) ==
    IF ~validate_handle(handle) THEN Raised(St(fsx), "ValueError")
    ELSE LET s0 == Did(St(fsx), "mkdir", {}, R(fsx, "none"))
             s1 == Guarded(s0, p, 0)
             s2 == IF rotate_on_start THEN rotate_files_steps(s1, p, keep) ELSE s1
         IN ensure_document_steps(s2, p)

\* the row, its validation and the size cap are those of HtmlFileFacility_write
HtmlFileFacility_write_steps(fsx, fac, rec, budget) ==
    LET p == fac.path
        s1 == Guarded(ensure_document_steps(St(fsx), p), p, 0)
        w == HtmlFileFacility_write(fsx, fac, rec, budget)
    IN IF w.exc = "HtmlSanitizationError" THEN Raised(s1, w.exc)
       ELSE Did(s1, "append", {0}, R(w.fs, w.exc))

\* Each operation on every chain of F, F.1 .. whose members are missing,
\* empty, with content, or dangling links; a write rotates when asked to.
StepNodes == {Missing, Regular(<< >>), Regular(RealFile), Symlink}
StepInputs ==
    {[fs |-> [p \in Paths |-> ch], keep |-> k, rotate |-> r] :
        ch \in [Slots -> StepNodes], k \in 0..MaxKeep, r \in BOOLEAN}
InitSteps == InitRest(DefaultArgs) /\ \E x \in StepInputs : last = Given(x)
StepFile(x) ==
    Fac("app", "file", PathOf("app"), x.keep,
        IF x.rotate THEN 1 ELSE DEFAULT_PLAIN_LOG_MAX_FILE_SIZE_BYTES, 0, 0, FALSE)
StepHtml(x) ==
    Fac("web", "html", PathOf("web"), x.keep, DEFAULT_MAX_HTML_DOCUMENT_BYTES,
        DEFAULT_MAX_LINE_LENGTH, DEFAULT_COLORIZE_TIMEOUT_MS, FALSE)
StepRecord == LogRecord(<<"a">>, LEVEL_INFO, NATURE_INFO, 1)
NextSteps ==
    \/ Apply("rotate", rotate_files_steps(St(last.arg.fs), PathOf("app"), last.arg.keep))
    \/ Apply("create_file",
             FileFacility_create_steps(last.arg.fs, "app", PathOf("app"), last.arg.rotate,
                                       last.arg.keep))
    \/ Apply("write_file", FileFacility_write_steps(last.arg.fs, StepFile(last.arg), StepRecord))
    \/ Apply("create_html",
             HtmlFileFacility_create_steps(last.arg.fs, "web", PathOf("web"), last.arg.rotate,
                                           last.arg.keep))
    \/ Apply("write_html",
             HtmlFileFacility_write_steps(last.arg.fs, StepHtml(last.arg), StepRecord, NEVER))
SpecSteps == InitSteps /\ [][NextSteps]_vars

\* what the operation leaves according to the operators of the facilities
Reference ==
    LET x == last.arg IN
    CASE last.op = "rotate" -> rotate_files(x.fs, PathOf("app"), x.keep)
      [] last.op = "create_file" ->
            FileFacility_create(x.fs, "app", PathOf("app"), x.rotate, x.keep,
                                cfg.plain_log_max_file_size_bytes)
      [] last.op = "write_file" -> FileFacility_write(x.fs, StepFile(x), StepRecord)
      [] last.op = "create_html" ->
            HtmlFileFacility_create(x.fs, "web", PathOf("web"), x.rotate, x.keep, cfg)
      [] last.op = "write_html" -> HtmlFileFacility_write(x.fs, StepHtml(x), StepRecord, NEVER)

\* C29: in a rotation, a creation and a write of a file or HTML facility,
\* every write_text, unlink, replace, touch and append comes after a guard
\* check, made in the same operation, of each member of the chain it
\* touches; and the steps leave the files and raise what the operation
\* does.
C29_CheckedBeforeTouched ==
    last.op \notin {"given", "init"} =>
        LET ops == last.out.ops IN
        /\ \A i \in 1..Len(ops) :
              ops[i].what # "check" =>
                 \A slot \in ops[i].slots :
                    \E j \in 1..(i - 1) : ops[j].what = "check" /\ slot \in ops[j].slots
        /\ last.out.fs = Reference.fs
        /\ last.out.exc = Reference.exc
\* a write that rotated a full chain of retention 2: the oldest copy was
\* deleted, F.1 and F renamed, F created anew and appended to
C29_Witness ==
    /\ last.op = "write_file"
    /\ last.arg.keep = 2
    /\ last.out.exc = "none"
    /\ \E i, j, k \in 1..Len(last.out.ops) :
          /\ i < j /\ j < k
          /\ last.out.ops[i] = Op("unlink", {2})
          /\ last.out.ops[j] = Op("replace", {1, 2})
          /\ last.out.ops[k] = Op("replace", {0, 1})
    /\ last.out.ops[Len(last.out.ops)] = Op("append", {0})

\* ------------------------------------------------- fragments of markup
\* The validator on every sequence of up to MaxToks parser events: start
\* tags (allowed and not, with and without attributes of each kind), end
\* tags, a self-closing tag and a comment.
MaxToks == 4
FragmentToks ==
    {Start("div", << >>), Start("span", <<"syn-base">>), Start("span", <<"evil-class">>),
     Tok("start", "span", <<Attr("onclick", <<"alert(1)">>, TRUE)>>, ""),
     Tok("start", "span", <<Attr("class", << >>, FALSE)>>, ""),
     Start("script", << >>), End("div"), End("span"), End("script"),
     Tok("startend", "br", << >>, ""), Tok("comment", "", << >>, "")}
InitFragment ==
    InitRest(DefaultArgs) /\ \E x \in SeqsUpTo(FragmentToks, MaxToks) : last = Given(x)
Validate == Apply("validate", validate_rendered_row_or_raise(last.arg))
SpecFragment == InitFragment /\ [][Validate]_vars

\* the tags open after the first n events, innermost last; <<"#">> once an
\* end tag met no open tag or another one than the innermost
RECURSIVE OpenAfter(_, _)
OpenAfter(toks, n) ==
    IF n = 0 THEN << >>
    ELSE LET before == OpenAfter(toks, n - 1)
             t == toks[n]
         IN IF before = <<"#">> THEN before
            ELSE IF t.k = "start" THEN Append(before, t.tag)
            ELSE IF t.k # "end" THEN before
            ELSE IF before # << >> /\ before[Len(before)] = t.tag
            THEN SubSeq(before, 1, Len(before) - 1)
            ELSE <<"#">>
StartTags(toks) == SelectSeq(toks, LAMBDA t : t.k = "start")
ClassOnly(attrs) ==
    \A i \in 1..Len(attrs) :
        /\ attrs[i].name = "class"
        /\ attrs[i].has_value
        /\ Len(attrs[i].value) > 0
        /\ \A j \in 1..Len(attrs[i].value) : attrs[i].value[j] \in ALLOWED_HTML_ROW_CLASSES

\* C31: the validator accepts a sequence of start tags, end tags,
\* self-closing tags and comments exactly when every tag is div, pre or
\* span, there is a first start tag and it is div, there is no self-closing
\* tag and no comment, every attribute is class with a non-empty list of
\* allow-listed tokens, every end tag closes the innermost open tag, and
\* nothing is open at the end.
C31_ValidatorAcceptsIff ==
    last.op = "validate" =>
        LET toks == last.arg IN
        last.out <=>
            /\ \A i \in 1..Len(toks) :
                  /\ toks[i].k \in {"start", "end"}
                  /\ toks[i].tag \in {"div", "pre", "span"}
                  /\ ClassOnly(toks[i].attrs)
            /\ StartTags(toks) # << >>
            /\ StartTags(toks)[1].tag = "div"
            /\ OpenAfter(toks, Len(toks)) = << >>
\* a span with a syntax class inside the root was accepted
C31_Witness ==
    /\ last.op = "validate"
    /\ last.arg = <<Start("div", << >>), Start("span", <<"syn-base">>), End("span"), End("div")>>
    /\ last.out = TRUE

\* ------------------------------------------------ calls below the minimum
\* Calls of either level, with a valid and an invalid nature, for all
\* handles, for a handle that may not be registered yet and for more handles
\* than a call may name, on routers of either minimum level.
GateCalls ==
    {LEVEL_DEBUG, LEVEL_INFO} \X {NATURE_INFO, "BOGUS"}
    \X {None, List(<<"app">>), List(<<"web", "app", "console">>)}
NextGate ==
    \/ \E c \in GateCalls : calls < MaxFaultCalls /\ LogCall(<<"a">>, c[1], c[2], c[3], NEVER)
    \/ AddLogFile("app", FALSE, 0)
    \/ \E level \in {"debug", LEVEL_INFO} : SetLevel(level)
SpecGate == Init /\ [][NextGate]_vars

\* the step is a log call of a valid level below the minimum in force
GatedCall ==
    /\ calls' = calls + 1
    /\ last'.op = "log"
    /\ validate_level(last'.level) # ""
    /\ LEVEL_PRIORITY(validate_level(last'.level)) < LEVEL_PRIORITY(logger_level)
\* it returned without an error, a write or a throttle check, and left the
\* throttle and the files as they were
Silent ==
    /\ last'.exc = "none"
    /\ last'.gated
    /\ last'.tr = << >>
    /\ thr' = thr
    /\ fs' = fs
    /\ facilities' = facilities

\* C32 as stated: every log call whose level is below the minimum returns
\* silently, with no error, no write and the throttle unchanged.
C32_BelowMinimumIsSilent == [][GatedCall => Silent]_vars

\* C32: a log call with a valid nature whose level is below the minimum
\* returns silently before the handles are resolved: no error, also when the
\* handles name an unregistered handle or are more than a call may name, no
\* write, no throttle check, the throttle window and the drop counters
\* unchanged; with an invalid nature the call raises the validation error,
\* which precedes the level gate, and changes nothing either.
C32_ValidCallBelowMinimumIsSilent ==
    [][GatedCall =>
          IF validate_nature(last'.nature) # "" THEN Silent
          ELSE last'.exc = "ValueError" /\ last'.tr = << >> /\ thr' = thr /\ fs' = fs]_vars
\* a DEBUG call for three handles, one more than the cap and one of them
\* unregistered, returned silently while a window was open
C32_Witness ==
    /\ last.op = "log"
    /\ last.gated
    /\ last.exc = "none"
    /\ last.handles = List(<<"web", "app", "console">>)
    /\ ~Registered(facilities, "web")
    /\ cfg.max_log_handles_per_call = 2
    /\ thr.writes_in_current_window > 0

\* -------------------------------------------------- the scans, step by step
\* One iteration of the outer while loop of each scan, without a deadline:
\* the index it goes on from and what it found.  A scan steps from index 1
\* (the code's 0) until the index is past the line, then returns.
\* an iteration that stays on a quote it finds no partner for
quoted_step_stuck(text, idx) ==
    IF text[idx] \notin QUOTES THEN [idx |-> idx + 1, found |-> << >>]
    ELSE LET r == FindClose(text, text[idx], idx + 1, idx + 1, TRUE)
         IN IF r[1] = 0 THEN [idx |-> idx, found |-> << >>]
            ELSE [idx |-> r[1] + 1, found |-> <<(<<idx + 1, r[1]>>)>>]
quoted_step(text, idx) ==
    IF text[idx] \notin QUOTES THEN [idx |-> idx + 1, found |-> << >>]
    ELSE LET r == FindClose(text, text[idx], idx + 1, idx + 1, TRUE)
         IN IF r[1] = 0 THEN [idx |-> idx + 1, found |-> << >>]
            ELSE [idx |-> r[1] + 1, found |-> <<(<<idx + 1, r[1]>>)>>]
mark_step(text, idx) ==
    IF text[idx] \notin QUOTES THEN [idx |-> idx + 1, found |-> << >>]
    ELSE LET r == FindClose(text, text[idx], idx, idx + 1, FALSE)
         IN IF r[1] = 0 THEN [idx |-> idx + 1, found |-> << >>]
            ELSE [idx |-> r[1] + 1, found |-> <<idx, r[1]>>]
lhs_step(text, idx) ==
    IF ~(IsAlpha(text[idx]) \/ text[idx] = "_") THEN [idx |-> idx + 1, found |-> << >>]
    ELSE LET end == IdentEnd(text, idx + 1)
             lookahead == SkipSpace(text, end)
         IN [idx |-> end,
             found |-> IF lookahead <= Len(text) /\ text[lookahead] = "="
                       THEN <<(<<idx, end>>)>> ELSE << >>]

ScanChars == {"a", "Q", "SQ", "BS", "=", " "}
ScanNames == {"quoted_content_spans", "quote_mark_positions", "lhs_equals_spans"}
InitScan ==
    /\ InitRest(DefaultArgs)
    /\ \E t \in SeqsUpTo(ScanChars, MaxMsgLen), scan \in ScanNames :
          last = [op |-> "scan", arg |-> [text |-> t, scan |-> scan],
                  out |-> [idx |-> 1, found |-> << >>]]
ScanStep(scan, step) ==
    /\ last.op = "scan"
    /\ last.arg.scan = scan
    /\ last.out.idx <= Len(last.arg.text)
    /\ last' = [last EXCEPT !.out = [idx |-> step.idx, found |-> @.found \o step.found]]
    /\ UNCHANGED <<now, logger_level, cfg, thr, facilities, fs, calls, win, EnvVars,
                   ThreadVars>>
ScanReturn ==
    /\ last.op = "scan"
    /\ last.out.idx > Len(last.arg.text)
    /\ last' = [last EXCEPT !.op = "scanned"]
    /\ UNCHANGED <<now, logger_level, cfg, thr, facilities, fs, calls, win, EnvVars,
                   ThreadVars>>
NextScan ==
    \/ ScanStep("quoted_content_spans", quoted_step(last.arg.text, last.out.idx))
    \/ ScanStep("quote_mark_positions", mark_step(last.arg.text, last.out.idx))
    \/ ScanStep("lhs_equals_spans", lhs_step(last.arg.text, last.out.idx))
    \/ ScanReturn
\* a scan that can take a step or return does so
SpecScan == InitScan /\ [][NextScan]_vars /\ WF_vars(NextScan)

\* what the scan returns according to the operators of the colorizer
ScanResult(x) ==
    CASE x.scan = "quoted_content_spans" -> quoted_content_spans(x.text).spans
      [] x.scan = "quote_mark_positions" -> quote_mark_positions(x.text).positions
      [] x.scan = "lhs_equals_spans" -> lhs_equals_spans(x.text).spans
Found(l) ==
    IF l.arg.scan = "quote_mark_positions"
    THEN {l.out.found[i] : i \in 1..Len(l.out.found)} ELSE l.out.found

\* C33: on every line, with unterminated quotes or not and without a
\* deadline, each iteration of the outer loop of each scan leaves the index
\* larger than it found it and at most one past the line, so each scan
\* returns; and it returns what the scan's operator gives.
C33_ScansTerminate ==
    /\ [][last.op = "scan" =>
             \/ /\ last'.op = "scan"
                /\ last'.out.idx > last.out.idx
                /\ last'.out.idx <= Len(last.arg.text) + 1
             \/ /\ last'.op = "scanned"
                /\ Found(last') = ScanResult(last.arg)]_vars
    /\ <>(last.op = "scanned")
\* the scan for quoted content returned from a line that opens two quotes
\* and closes none
C33_Witness ==
    /\ last.op = "scanned"
    /\ last.arg.scan = "quoted_content_spans"
    /\ last.arg.text = <<"Q", "a", "SQ">>
    /\ last.out.found = << >>


\* ---------------------------------------------------------------------------
\* Re-construction of the router between log calls and registrations.
\* ---------------------------------------------------------------------------
\* the arguments of the re-constructions: two valid ones, one whose
\* max_writes_per_second is not positive while its level and its
\* max_log_handles_per_call are new, and one whose level is invalid
ReArgs ==
    {Args(LEVEL_INFO, 1, 2, 2), Args(LEVEL_DEBUG, 2, 2, 2), Args(LEVEL_DEBUG, 0, 2, 3),
     Args("BOGUS", 2, 2, 3)}
ReHandles == {None, List(<<"app", HANDLE_CONSOLE>>)}
InitReconstruct == InitWith(Args(LEVEL_INFO, 1, 2, 2))
NextReconstruct ==
    \/ \E a \in ReArgs : Construct(a)
    \/ \E hs \in ReHandles :
          calls < MaxFaultCalls /\ LogCall(<<"a">>, LEVEL_INFO, NATURE_INFO, hs, NEVER)
    \/ \E h \in {"app", "web"} : AddLogFile(h, FALSE, 0)
    \/ now < MaxTime /\ Tick
SpecReconstruct == InitReconstruct /\ [][NextReconstruct]_vars

\* C34: constructing the router again reconfigures the one instance and
\* nothing else: the handles registered and their order, every file and HTML
\* facility, the files, the start of the throttle window, the counters of the
\* window and the cumulative drop counters are as they were; of the
\* facilities only the console takes the new settings.
C34_ReconstructionKeepsState ==
    [][(\E a \in ReArgs : Construct(a)) =>
          /\ Keys(facilities') = Keys(facilities)
          /\ \A i \in 1..Len(facilities) :
                \/ facilities'[i] = facilities[i]
                \/ facilities[i].kind = "console" /\ facilities'[i].kind = "console"
          /\ thr' = thr
          /\ fs' = fs]_vars
\* the router was constructed again, with success, while two file facilities
\* were registered, a window was open and writes had been dropped in it
C34_Witness ==
    /\ last.op = "init"
    /\ last.exc = "none"
    /\ Keys(facilities) = <<HANDLE_CONSOLE, "web", "app">>
    /\ thr.window_started_at > 0
    /\ thr.writes_in_current_window > 0
    /\ thr.dropped_in_current_window > 0
    /\ thr.throttle_dropped_total > 0

\* C39: a re-construction that fails validation, because an option is not
\* positive or the level is invalid, leaves the whole configuration as it
\* was: the minimum level, every option and the console's settings.
C39_FailedReconstructionChangesNothing ==
    [][((\E a \in ReArgs : Construct(a)) /\ last'.exc = "ValueError") =>
          /\ logger_level' = logger_level
          /\ cfg' = cfg
          /\ facilities' = facilities]_vars

\* sum(self._throttle_dropped_by_handle.values())
RECURSIVE SumValues(_)
SumValues(d) ==
    IF DOMAIN d = {} THEN 0
    ELSE LET h == CHOOSE x \in DOMAIN d : TRUE
         IN d[h] + SumValues([x \in DOMAIN d \ {h} |-> d[x]])

\* C36: between single-threaded log calls, registrations and
\* re-constructions, dropped_total is the sum of dropped_by_handle, the
\* drops of the window are at most dropped_total, and writes_this_window
\* changes only to a value within the max_writes_per_second in force at that
\* moment: it exceeds the cap only after a re-construction lowered the cap
\* under writes already admitted.
C36_CountersAgree ==
    /\ [](/\ thr.throttle_dropped_total = SumValues(thr.throttle_dropped_by_handle)
          /\ thr.dropped_in_current_window <= thr.throttle_dropped_total
          /\ thr.writes_in_current_window = win.admitted
          /\ thr.writes_in_current_window > cfg.max_writes_per_second => win.cap_changed)
    /\ [][thr'.writes_in_current_window # thr.writes_in_current_window =>
             /\ last'.op = "log"
             /\ thr'.writes_in_current_window <= cfg.max_writes_per_second]_vars
\* two writes were admitted under a cap of two, the cap was lowered to one by
\* a re-construction, and the next calls dropped writes for two handles
C36_Witness ==
    /\ thr.writes_in_current_window = 2
    /\ cfg.max_writes_per_second = 1
    /\ thr.dropped_in_current_window > 0
    /\ Cardinality(DOMAIN thr.throttle_dropped_by_handle) = 2

\* ---------------------------------------------------------------------------
\* Diagnostics on the console while the throttle window is full.
\* ---------------------------------------------------------------------------
\* what a diagnostic reports: a closed window's drops, a rejected or a failed
\* write, a failed registration
DiagKinds == {"throttle", "security", "failure", "init"}
DiagHandles == {None, List(<<"app">>), List(<<"app", HANDLE_CONSOLE>>)}
InitDiag == InitWith(Args(LEVEL_INFO, 1, 2, 2))
NextDiag ==
    \/ \E hs \in DiagHandles, level \in Levels :
          calls < MaxCalls /\ LogCall(<<"a">>, level, NATURE_INFO, hs, NEVER)
    \/ AddLogFile("app", FALSE, 0)
    \/ EnvIoError(PathOf("app"))
    \/ EnvReplace(PathOf("app"), 0, Symlink)
    \/ EnvConsoleBreaks("stderr")
    \/ SetLevel("debug")
    \/ now < MaxTime /\ Tick
SpecDiag == InitDiag /\ [][NextDiag]_vars

\* the events of a trace that are throttle decisions of the given kind
Decisions(tr, what) == {i \in 1..Len(tr) : tr[i].what = what}
DiagnosticsOf(tr) == {i \in 1..Len(tr) : tr[i].what \in DiagKinds}

\* C40: a diagnostic goes to the console past the throttle: the window
\* counters and the drop counters move by the admissions and drops of the
\* call's own throttle checks and by nothing else, whatever diagnostics the
\* call or a registration emitted, and every diagnostic is handed to the
\* console's stream (it fails only when stderr is closed), also when the
\* window is full and console records are being dropped.
C40_DiagnosticsBypassThrottle ==
    [][LET tr == last'.tr
           opened == thr'.window_started_at # thr.window_started_at
           A == Cardinality(Decisions(tr, "admit"))
           D == Cardinality(Decisions(tr, "drop"))
       IN /\ IF calls' = calls + 1 /\ last'.op = "log"
             THEN /\ thr'.writes_in_current_window =
                        (IF opened THEN 0 ELSE thr.writes_in_current_window) + A
                  /\ thr'.dropped_in_current_window =
                        (IF opened THEN 0 ELSE thr.dropped_in_current_window) + D
                  /\ thr'.throttle_dropped_total = thr.throttle_dropped_total + D
                  /\ \A h \in {HANDLE_CONSOLE, "app"} :
                        Get(thr'.throttle_dropped_by_handle, h) =
                           Get(thr.throttle_dropped_by_handle, h)
                           + Cardinality({i \in Decisions(tr, "drop") : tr[i].h = h})
             ELSE thr' = thr
          /\ last' # last =>
                \A i \in DiagnosticsOf(tr) :
                   /\ tr[i].h = HANDLE_CONSOLE
                   /\ tr[i].exc = IF "stderr" \in closed THEN "OSError" ELSE "none"]_vars
\* a call for the file facility and the console under a cap of one: the write
\* to the file was admitted and failed, the failure was reported on the
\* console, and the call's own console record was dropped by the throttle
C40_Witness ==
    /\ last.op = "log"
    /\ \E i \in DiagnosticsOf(last.tr) : last.tr[i].what = "failure" /\ last.tr[i].exc = "none"
    /\ \E i \in Decisions(last.tr, "drop") : last.tr[i].h = HANDLE_CONSOLE
    /\ thr.writes_in_current_window = cfg.max_writes_per_second
    /\ Get(thr.throttle_dropped_by_handle, HANDLE_CONSOLE) > 0

\* C37: after any sequence of successful and rejected writes, the rows of
\* the document of the HTML facility carry consecutive line numbers: the
\* k-th row after the rows present at creation is numbered that count plus
\* k, so each row's number is its position among the rows.
C37_RowsNumberedConsecutively ==
    Registered(facilities, "web") =>
       LET doc == fs[PathOf("web")][0]
       IN \A i \in Rows(doc) : doc.content[i].no = Cardinality({j \in Rows(doc) : j <= i})

\* C38: a rotation that raises the unsafe-target error has deleted, renamed
\* and truncated nothing: every member of the chain F, F.1 .. F.N is as it
\* was before the call.
C38_RefusedRotationLeavesChain ==
    (last.op = "rotate" /\ last.out.exc = "UnsafeLogTargetError") =>
        last.out.fs = last.arg.fs

\* C35: with log calls of several threads running without external
\* synchronization, the writes admitted in one throttle window never exceed
\* the max_writes_per_second in force when they were admitted, dropped_total
\* is the number of writes dropped, and dropped_total is at every moment, as
\* a reader of the statistics may see it, the sum of dropped_by_handle.
C35_ConcurrentThrottleIsExact ==
    /\ win.admitted <= win.cap
    /\ thr.throttle_dropped_total = win.base_total + (win.n - win.admitted)
    /\ thr.throttle_dropped_total = SumValues(thr.throttle_dropped_by_handle)

====
